---- MODULE Spec2Model ----
(***************************************************************************)
(* A model of the map / combine / reduce jobs of MapReduce_Hadoop:         *)
(*   TemperatureAnalysisJob     src/src/mapreduce/temperature_analysis_job.py   *)
(*   PrecipitationAnalysisJob   src/src/mapreduce/precipitation_analysis_job.py *)
(*   ExtremeWeatherAnalysisJob  src/src/mapreduce/extreme_weather_job.py        *)
(* The mrjob runtime is the environment: it feeds input lines to the       *)
(* mapper, may hand any batch of same-key values to the combiner, and      *)
(* delivers all values of a key, in any order, to one reducer call.        *)
(*                                                                         *)
(* Numbers.  Every measurement (degrees, millimetres, km/h, per cent) is   *)
(* an integer number of tenths of its unit; sums, means and ratios are     *)
(* exact rationals and round(x, 2) yields an integer number of hundredths. *)
(***************************************************************************)
EXTENDS Integers, Sequences, FiniteSets, Bags, TLC

VARIABLES
    job,      \* which job runs: "temperature", "precipitation", "extreme"
    options,  \* the job's passthru options (configure_args)
    input,    \* the bag of input lines the mapper tasks have consumed so far
    pending,  \* bag of <<key, value>> pairs yielded by mapper/combiner, not yet reduced
    phase,    \* "map" (mapper tasks and their combiners run), "reduce", "done"
    rounds,   \* history: the most combiner calls any value has passed through (0, 1, 2)
    output    \* the lines yielded by the reducer calls, in emission order

vars == <<job, options, input, pending, phase, rounds, output>>

-----------------------------------------------------------------------------
(* Bounds of the model *)

\* input lines of a run
MaxRecs == 3

\* values the mapper tasks of a run yield
MaxValues == 3

\* input lines of one location in an assessment
MaxAssessRecs == 3

\* the most input lines of one country whose days are classified
MaxRainRecs == 3

\* the most input lines of one zone whose days are counted by comfort class
MaxComfortRecs == 3

\* the most input lines of one group handed to a simplified job
MaxSimpleRecs == 3

-----------------------------------------------------------------------------
(* Optional JSON fields: absent (None), a number, or an unparseable string *)

None == [tag |-> "none", v |-> 0]
Num(x) == [tag |-> "num", v |-> x]
Bad == [tag |-> "str", v |-> 0]

-----------------------------------------------------------------------------
(* Arithmetic helpers (Python built-ins and the statistics module) *)

RECURSIVE SeqSum(_)
SeqSum(s) == IF s = <<>> THEN 0 ELSE Head(s) + SeqSum(Tail(s))

RECURSIVE SeqMax(_)
SeqMax(s) == IF Len(s) = 1 THEN s[1]
             ELSE LET m == SeqMax(Tail(s)) IN IF s[1] >= m THEN s[1] ELSE m

RECURSIVE SeqMin(_)
SeqMin(s) == IF Len(s) = 1 THEN s[1]
             ELSE LET m == SeqMin(Tail(s)) IN IF s[1] <= m THEN s[1] ELSE m

RECURSIVE Insert(_, _)
Insert(x, s) == IF s = <<>> THEN <<x>>
                ELSE IF x <= Head(s) THEN <<x>> \o s
                ELSE <<Head(s)>> \o Insert(x, Tail(s))

RECURSIVE Sorted(_)
Sorted(s) == IF s = <<>> THEN <<>> ELSE Insert(Head(s), Sorted(Tail(s)))

RECURSIVE Gcd(_, _)
Gcd(a, b) == IF b = 0 THEN a ELSE Gcd(b, a % b)

Abs(x) == IF x < 0 THEN -x ELSE x

\* the exact rational n/d (d > 0), in lowest terms
Frac(n, d) == LET g == Gcd(Abs(n), d) IN [n |-> n \div g, d |-> d \div g]

\* nearest integer to n/d (d > 0), ties to even: Python's round()
RoundDiv(n, d) ==
    LET q == n \div d
        r == n % d
    IN  IF 2 * r < d THEN q
        ELSE IF 2 * r > d THEN q + 1
        ELSE IF q % 2 = 0 THEN q ELSE q + 1

\* statistics.mean of a list of tenths, as an exact rational number of tenths
Mean(s) == Frac(SeqSum(s), Len(s))

\* round(x, 2) of a rational number of tenths, in hundredths
Round2(f) == RoundDiv(10 * f.n, f.d)

RECURSIVE SqrtSearch(_, _, _, _)
\* the largest r in lo..hi with (2r-1)^2 * q <= 4p, i.e. the integer nearest sqrt(p/q)
SqrtSearch(lo, hi, p, q) ==
    IF lo = hi THEN lo
    ELSE LET mid == (lo + hi + 1) \div 2
         IN  IF (2 * mid - 1) * (2 * mid - 1) * q <= 4 * p
             THEN SqrtSearch(mid, hi, p, q)
             ELSE SqrtSearch(lo, mid - 1, p, q)

SqSeq(s) == [i \in 1..Len(s) |-> s[i] * s[i]]

\* round(statistics.stdev(s), 2) of a list of tenths, in hundredths:
\* sample variance (n*sum(x^2) - sum(x)^2) / (n*(n-1)) tenths^2
Stdev2(s) ==
    LET n == Len(s)
        p == n * SeqSum(SqSeq(s)) - SeqSum(s) * SeqSum(s)
        q == n * (n - 1)
    IN  SqrtSearch(0, 10 * (SeqMax(s) - SeqMin(s)) + 1, 100 * p, q)

-----------------------------------------------------------------------------
(* _get_season: the fixed month -> season table of both jobs *)

\* the table of the other hemisphere
GetSeasonSouthern(month) ==
    IF month \in {12, 1, 2} THEN "summer"
    ELSE IF month \in {3, 4, 5} THEN "autumn"
    ELSE IF month \in {6, 7, 8} THEN "winter"
    ELSE "spring"

GetSeason(month) ==
    IF month \in {12, 1, 2} THEN "winter"
    ELSE IF month \in {3, 4, 5} THEN "spring"
    ELSE IF month \in {6, 7, 8} THEN "summer"
    ELSE "autumn"

\* a date is the sequence of its '-'-separated parts; <<>> is an absent or
\* empty date; a part that int() rejects is NaP
NaP == -1

-----------------------------------------------------------------------------
(* TemperatureAnalysisJob *)

TempAnalysisTypes == {"full", "seasonal", "monthly"}

\* input lines offered to the temperature job (every line carries all fields of
\* a weather record; "" is an absent string field)
TempRecords ==
    { [location_key |-> "medellin", climate_zone |-> "tropical",
       date |-> <<2024, 1, 15>>, country |-> "Colombia",
       temperature_2m_max |-> Num(240), temperature_2m_min |-> Num(160),
       temperature_2m_mean |-> Num(200), precipitation_sum |-> Num(0),
       windspeed_10m_max |-> None, humidity_2m_max |-> None],
      [location_key |-> "manaus", climate_zone |-> "tropical",
       date |-> <<2024, 7, 2>>, country |-> "Brasil",
       temperature_2m_max |-> Num(350), temperature_2m_min |-> Num(270),
       temperature_2m_mean |-> None, precipitation_sum |-> Num(52),
       windspeed_10m_max |-> None, humidity_2m_max |-> None],
      [location_key |-> "valdivia", climate_zone |-> "oceanic",
       date |-> <<2024, 7, 9>>, country |-> "",
       temperature_2m_max |-> Num(120), temperature_2m_min |-> Num(40),
       temperature_2m_mean |-> Num(90), precipitation_sum |-> Num(52),
       windspeed_10m_max |-> None, humidity_2m_max |-> None],
      [location_key |-> "medellin", climate_zone |-> "tropical",
       date |-> <<2024, 1, 21>>, country |-> "Colombia",
       temperature_2m_max |-> None, temperature_2m_min |-> Num(150),
       temperature_2m_mean |-> Num(200), precipitation_sum |-> Num(0),
       windspeed_10m_max |-> None, humidity_2m_max |-> None],
      [location_key |-> "valdivia", climate_zone |-> "oceanic",
       date |-> <<2024, 7, 10>>, country |-> "Chile",
       temperature_2m_max |-> Bad, temperature_2m_min |-> Num(150),
       temperature_2m_mean |-> Num(200), precipitation_sum |-> Num(0),
       windspeed_10m_max |-> None, humidity_2m_max |-> None],
      \* three days of one mountain station with daily means 20.0, 22.0 and 24.0
      [location_key |-> "bogota", climate_zone |-> "tropical_mountain",
       date |-> <<2024, 1, 1>>, country |-> "Colombia",
       temperature_2m_max |-> Num(240), temperature_2m_min |-> Num(160),
       temperature_2m_mean |-> Num(200), precipitation_sum |-> Num(0),
       windspeed_10m_max |-> None, humidity_2m_max |-> None],
      [location_key |-> "bogota", climate_zone |-> "tropical_mountain",
       date |-> <<2024, 1, 2>>, country |-> "Colombia",
       temperature_2m_max |-> Num(260), temperature_2m_min |-> Num(180),
       temperature_2m_mean |-> Num(220), precipitation_sum |-> Num(0),
       windspeed_10m_max |-> None, humidity_2m_max |-> None],
      [location_key |-> "bogota", climate_zone |-> "tropical_mountain",
       date |-> <<2024, 1, 3>>, country |-> "Colombia",
       temperature_2m_max |-> Num(280), temperature_2m_min |-> Num(200),
       temperature_2m_mean |-> Num(240), precipitation_sum |-> Num(0),
       windspeed_10m_max |-> None, humidity_2m_max |-> None] }

\* a string field that holds a JSON array instead: truthy, and json.loads makes
\* it a list, which is unhashable
ArrayValue == "[array]"

\* input lines whose country is not a string
TempUntypedRecords ==
    { [location_key |-> "bogota", climate_zone |-> "tropical_mountain",
       date |-> <<2024, 1, 4>>, country |-> ArrayValue,
       temperature_2m_max |-> Num(250), temperature_2m_min |-> Num(170),
       temperature_2m_mean |-> Num(210), precipitation_sum |-> Num(0),
       windspeed_10m_max |-> None, humidity_2m_max |-> None] }

\* mapper_extract_temperature_data: the sequence of <<key, value>> pairs yielded
\* for one input line (empty when the line is dropped)
TempMapper(opts, r) ==
    IF ~(r.climate_zone # "" /\ r.date # <<>>
         /\ r.temperature_2m_max.tag # "none" /\ r.temperature_2m_min.tag # "none")
    THEN <<>>
    \* float() of an unparseable field raises ValueError: caught, nothing emitted
    ELSE IF r.temperature_2m_max.tag = "str" \/ r.temperature_2m_min.tag = "str"
            \/ r.temperature_2m_mean.tag = "str"
    THEN <<>>
    \* int(date.split('-')[1]): IndexError or ValueError, nothing emitted
    ELSE IF Len(r.date) < 2 \/ r.date[2] = NaP
    THEN <<>>
    ELSE
      LET tmax == r.temperature_2m_max.v
          tmin == r.temperature_2m_min.v
          \* (float(temp_max) + float(temp_min)) / 2.0; the input lines offered
          \* have whole degrees, so the half is a whole number of tenths
          tmean == IF r.temperature_2m_mean.tag = "none"
                   THEN (tmax + tmin) \div 2
                   ELSE r.temperature_2m_mean.v
          month == r.date[2]
          key == [climate_zone |-> r.climate_zone,
                  analysis_type |-> opts.analysis_type,
                  season |-> IF opts.analysis_type = "seasonal"
                             THEN GetSeason(month) ELSE "all",
                  month |-> IF opts.analysis_type = "monthly" THEN month ELSE 0]
          value == [is_partial |-> FALSE,
                    temp_max |-> tmax, temp_min |-> tmin, temp_mean |-> tmean,
                    country |-> r.country, temp_range |-> tmax - tmin]
      IN  << <<key, value>> >>

\* the partial_stats dict of combiner_aggregate_partial with its count
TempPartialStats(values, count) ==
    [is_partial |-> TRUE,
     temp_max_values |-> [i \in 1..Len(values) |-> values[i].temp_max],
     temp_min_values |-> [i \in 1..Len(values) |-> values[i].temp_min],
     temp_mean_values |-> [i \in 1..Len(values) |-> values[i].temp_mean],
     temp_range_values |-> [i \in 1..Len(values) |-> values[i].temp_range],
     countries |-> {values[i].country : i \in 1..Len(values)},
     record_count |-> count]

\* a combiner that counts the distinct countries instead of the values
TempAggregateMiscount(values) ==
    TempPartialStats(values, Cardinality({values[i].country : i \in 1..Len(values)}))

\* the body of combiner_aggregate_partial's try block over values, all raw
TempAggregate(values) == TempPartialStats(values, Len(values))

\* the index of the first value of a combiner's iterator on which its loop body
\* raises KeyError (a value that has no raw fields), or 0 when it never raises
FirstPartial(values) ==
    IF \E i \in 1..Len(values) : values[i].is_partial
    THEN CHOOSE i \in 1..Len(values) :
            values[i].is_partial /\ \A j \in 1..(i - 1) : ~values[j].is_partial
    ELSE 0

\* the except branch of a combiner: "for value in values: yield (key, value)" over
\* the one-shot iterator mrjob passes, of which k values were already consumed
Fallback(values, k) == SubSeq(values, k + 1, Len(values))

\* the loop body of the combiner raises on this value: KeyError for a value that
\* has no raw fields, TypeError for countries.add() of a list
TempCombinerRaises(value) == value.is_partial \/ value.country = ArrayValue

\* the index of the first value on which the combiner's loop raises, or 0
TempFirstRaise(values) ==
    IF \E i \in 1..Len(values) : TempCombinerRaises(values[i])
    THEN CHOOSE i \in 1..Len(values) :
            TempCombinerRaises(values[i])
            /\ \A j \in 1..(i - 1) : ~TempCombinerRaises(values[j])
    ELSE 0

\* combiner_aggregate_partial: the sequence of values it yields for one key
TempCombiner(values) ==
    LET k == TempFirstRaise(values)
    IN  IF k = 0 THEN <<TempAggregate(values)>> ELSE Fallback(values, k)

\* the loop of reducer_calculate_statistics raises: all_countries.add() of a list
TempReducerRaises(values) ==
    \E i \in 1..Len(values) : ~values[i].is_partial /\ values[i].country = ArrayValue

\* the except branch of reducer_calculate_statistics: the line it yields
TempErrorLine(key) == <<"ERROR", [error |-> "unhashable type: 'list'", key |-> key]>>

TempReducerInit ==
    [all_temp_max |-> <<>>, all_temp_min |-> <<>>, all_temp_mean |-> <<>>,
     all_temp_range |-> <<>>, all_countries |-> {}, total_records |-> 0]

\* a reducer loop that counts every partial as at least one record
TempReducerFoldAtLeastOne(acc, value) ==
    IF value.is_partial
    THEN [all_temp_max |-> acc.all_temp_max \o value.temp_max_values,
          all_temp_min |-> acc.all_temp_min \o value.temp_min_values,
          all_temp_mean |-> acc.all_temp_mean \o value.temp_mean_values,
          all_temp_range |-> acc.all_temp_range \o value.temp_range_values,
          all_countries |-> acc.all_countries \cup value.countries,
          total_records |-> acc.total_records
                            + (IF value.record_count = 0 THEN 1 ELSE value.record_count)]
    ELSE [all_temp_max |-> Append(acc.all_temp_max, value.temp_max),
          all_temp_min |-> Append(acc.all_temp_min, value.temp_min),
          all_temp_mean |-> Append(acc.all_temp_mean, value.temp_mean),
          all_temp_range |-> Append(acc.all_temp_range, value.temp_range),
          all_countries |-> acc.all_countries \cup {value.country},
          total_records |-> acc.total_records + 1]

\* one iteration of reducer_calculate_statistics's loop over values
TempReducerFold(acc, value) ==
    IF value.is_partial
    THEN [all_temp_max |-> acc.all_temp_max \o value.temp_max_values,
          all_temp_min |-> acc.all_temp_min \o value.temp_min_values,
          all_temp_mean |-> acc.all_temp_mean \o value.temp_mean_values,
          all_temp_range |-> acc.all_temp_range \o value.temp_range_values,
          all_countries |-> acc.all_countries \cup value.countries,
          total_records |-> acc.total_records + value.record_count]
    ELSE [all_temp_max |-> Append(acc.all_temp_max, value.temp_max),
          all_temp_min |-> Append(acc.all_temp_min, value.temp_min),
          all_temp_mean |-> Append(acc.all_temp_mean, value.temp_mean),
          all_temp_range |-> Append(acc.all_temp_range, value.temp_range),
          all_countries |-> acc.all_countries \cup {value.country},
          total_records |-> acc.total_records + 1]

\* a comfort band that leaves out its two ends
IsComfortableOpen(temp) == 180 < temp /\ temp < 260

\* "18 <= temp <= 26" of the comfort analysis
IsComfortable(temp) == 180 <= temp /\ temp <= 260

\* the stats dict reducer_calculate_statistics builds from its non-empty lists,
\* as the line it yields
TempStats(key, acc) ==
      LET m == acc.all_temp_mean
          n == Len(m)
          srt == Sorted(m)
          comfortable == Cardinality({i \in 1..n : IsComfortable(m[i])})
          stats ==
            [climate_zone |-> key.climate_zone,
             analysis_type |-> key.analysis_type,
             season |-> key.season,
             month |-> key.month,
             record_count |-> acc.total_records,
             countries |-> acc.all_countries,
             mean_temperature |-> Round2(Mean(m)),
             max_temperature_overall |-> 10 * SeqMax(acc.all_temp_max),
             min_temperature_overall |-> 10 * SeqMin(acc.all_temp_min),
             avg_daily_max |-> Round2(Mean(acc.all_temp_max)),
             avg_daily_min |-> Round2(Mean(acc.all_temp_min)),
             avg_daily_range |-> Round2(Mean(acc.all_temp_range)),
             temperature_variability |-> IF n > 1 THEN Stdev2(m) ELSE 0,
             q1_temp |-> 10 * srt[(n \div 4) + 1],
             median_temp |-> 10 * srt[(n \div 2) + 1],
             q3_temp |-> 10 * srt[((3 * n) \div 4) + 1],
             extreme_temp_range |->
                 10 * (SeqMax(acc.all_temp_max) - SeqMin(acc.all_temp_min)),
             comfortable_days |-> comfortable,
             comfort_percentage |-> RoundDiv(10000 * comfortable, n),
             hot_days |-> Cardinality({i \in 1..n : m[i] > 300}),
             cold_days |-> Cardinality({i \in 1..n : m[i] < 100})]
      IN  << <<key.climate_zone, stats>> >>

\* a reducer that asks for two observations before it computes statistics
TempFinalizeNeedsTwo(key, acc) ==
    IF Len(acc.all_temp_mean) < 2 THEN <<>> ELSE TempStats(key, acc)

\* the rest of reducer_calculate_statistics: the lines it yields (none for an
\* empty accumulator)
TempFinalize(key, acc) ==
    IF Len(acc.all_temp_mean) < 1 THEN <<>> ELSE TempStats(key, acc)

-----------------------------------------------------------------------------
(* PrecipitationAnalysisJob *)

\* --min-precipitation, default 1.0 mm
MinPrecipitationDefault == 10

\* input lines offered to the precipitation job
PrecipRecords ==
    { [country |-> "Colombia", date |-> <<2024, 1, 15>>, climate_zone |-> "tropical",
       location_key |-> "medellin", precipitation_sum |-> Num(0),
       temperature_2m_max |-> Num(240), temperature_2m_min |-> Num(160),
       temperature_2m_mean |-> Num(200),
       windspeed_10m_max |-> None, humidity_2m_max |-> None],
      [country |-> "Colombia", date |-> <<2024, 1, 16>>, climate_zone |-> "tropical",
       location_key |-> "medellin", precipitation_sum |-> Num(50),
       temperature_2m_max |-> Num(240), temperature_2m_min |-> Num(160),
       temperature_2m_mean |-> Num(200),
       windspeed_10m_max |-> None, humidity_2m_max |-> None],
      [country |-> "Colombia", date |-> <<2024, 1, 17>>, climate_zone |-> "tropical",
       location_key |-> "medellin", precipitation_sum |-> Num(0),
       temperature_2m_max |-> Num(240), temperature_2m_min |-> Num(160),
       temperature_2m_mean |-> Num(200),
       windspeed_10m_max |-> None, humidity_2m_max |-> None],
      [country |-> "Colombia", date |-> <<2023, 7, 1>>, climate_zone |-> "mountain",
       location_key |-> "bogota", precipitation_sum |-> Num(120),
       temperature_2m_max |-> Num(190), temperature_2m_min |-> Num(90),
       temperature_2m_mean |-> None,
       windspeed_10m_max |-> None, humidity_2m_max |-> None],
      [country |-> "Peru", date |-> <<2024, 1, 17>>, climate_zone |-> "arid",
       location_key |-> "lima", precipitation_sum |-> Bad,
       temperature_2m_max |-> Num(260), temperature_2m_min |-> Num(190),
       temperature_2m_mean |-> Num(220),
       windspeed_10m_max |-> None, humidity_2m_max |-> None],
      [country |-> "Peru", date |-> <<2024, 1, 18>>, climate_zone |-> "arid",
       location_key |-> "lima", precipitation_sum |-> None,
       temperature_2m_max |-> Num(260), temperature_2m_min |-> Num(190),
       temperature_2m_mean |-> Num(220),
       windspeed_10m_max |-> None, humidity_2m_max |-> None] }

\* a day that counts as rainy only above the threshold
IsRainyStrict(precip_value, min_precipitation) == precip_value > min_precipitation

\* "is_rainy = precip_value >= self.options.min_precipitation"
IsRainy(precip_value, min_precipitation) == precip_value >= min_precipitation

\* mapper_extract_precipitation_data: the pairs yielded for one input line
PrecipMapper(opts, r) ==
    IF ~(r.country # "" /\ r.date # <<>> /\ r.precipitation_sum.tag # "none")
    THEN <<>>
    \* "year, month, day = date.split('-')" and int(): ValueError, nothing emitted
    ELSE IF Len(r.date) # 3 \/ r.date[1] = NaP \/ r.date[2] = NaP
    THEN <<>>
    ELSE
      \* float() of an unparseable value raises ValueError: the value becomes 0.0
      LET precip_value == IF r.precipitation_sum.tag = "num"
                          THEN r.precipitation_sum.v ELSE 0
          value == [is_partial |-> FALSE,
                    precipitation |-> precip_value,
                    date |-> r.date,
                    year |-> r.date[1],
                    month |-> r.date[2],
                    season |-> GetSeason(r.date[2]),
                    is_rainy |-> IsRainy(precip_value, opts.min_precipitation),
                    climate_zone |-> r.climate_zone,
                    location_key |-> r.location_key]
      IN  << <<r.country, value>> >>

RECURSIVE PrecipWhere(_, _, _)
\* the precipitation of the values whose field f is k, in iteration order
PrecipWhere(values, f, k) ==
    IF values = <<>> THEN <<>>
    ELSE (IF Head(values)[f] = k THEN <<Head(values).precipitation>> ELSE <<>>)
         \o PrecipWhere(Tail(values), f, k)

\* the combiner's seasonal_stats / monthly_stats / yearly_stats dict for field f
PrecipGroupStats(values, f) ==
    [k \in {values[i][f] : i \in 1..Len(values)} |->
        LET vs == PrecipWhere(values, f, k)
        IN  [total_precip |-> SeqSum(vs), avg_precip |-> Mean(vs), days |-> Len(vs)]]

\* the body of combiner_aggregate_precipitation's try block over values, all raw
PrecipAggregate(values) ==
    LET precipitation_values == [i \in 1..Len(values) |-> values[i].precipitation]
    IN  [is_partial |-> TRUE,
         total_precipitation |-> SeqSum(precipitation_values),
         precipitation_values |-> precipitation_values,
         rainy_days |-> Cardinality({i \in 1..Len(values) : values[i].is_rainy}),
         total_days |-> Len(values),
         seasonal_stats |-> PrecipGroupStats(values, "season"),
         monthly_stats |-> PrecipGroupStats(values, "month"),
         yearly_stats |-> PrecipGroupStats(values, "year"),
         climate_zones |-> {values[i].climate_zone : i \in 1..Len(values)}]

\* combiner_aggregate_precipitation: the sequence of values it yields for one key
PrecipCombiner(values) ==
    LET k == FirstPartial(values)
    IN  IF k = 0 THEN <<PrecipAggregate(values)>> ELSE Fallback(values, k)

PrecipReducerInit ==
    [all_precipitation |-> <<>>, total_rainy_days |-> 0, total_days |-> 0,
     all_seasonal_stats |-> <<>>, all_monthly_stats |-> <<>>,
     all_yearly_stats |-> <<>>, all_climate_zones |-> {}]

\* the defaultdict of lists "all": entry k gains one total_precip and one days item
StatsAppend(all, k, total_precip, days) ==
    LET old == IF k \in DOMAIN all THEN all[k]
               ELSE [total_precip |-> <<>>, days |-> <<>>]
        new == [total_precip |-> Append(old.total_precip, total_precip),
                days |-> Append(old.days, days)]
    IN  [x \in DOMAIN all \cup {k} |-> IF x = k THEN new ELSE all[x]]

\* a merge in which a partial's entry replaces what the bucket already holds
StatsMergeOverwrite(all, stats) ==
    [x \in DOMAIN all \cup DOMAIN stats |->
        IF x \in DOMAIN stats
        THEN [total_precip |-> <<stats[x].total_precip>>, days |-> <<stats[x].days>>]
        ELSE all[x]]

\* "for season, stats in data['seasonal_stats'].items(): ..." of the reducer
StatsMerge(all, stats) ==
    [x \in DOMAIN all \cup DOMAIN stats |->
        IF x \in DOMAIN stats
        THEN StatsAppend(all, x, stats[x].total_precip, stats[x].days)[x]
        ELSE all[x]]

\* one iteration of reducer_calculate_precipitation_stats's loop over values
PrecipReducerFold(acc, data) ==
    IF data.is_partial
    THEN [all_precipitation |-> acc.all_precipitation \o data.precipitation_values,
          total_rainy_days |-> acc.total_rainy_days + data.rainy_days,
          total_days |-> acc.total_days + data.total_days,
          all_climate_zones |-> acc.all_climate_zones \cup data.climate_zones,
          all_seasonal_stats |-> StatsMerge(acc.all_seasonal_stats, data.seasonal_stats),
          all_monthly_stats |-> StatsMerge(acc.all_monthly_stats, data.monthly_stats),
          all_yearly_stats |-> StatsMerge(acc.all_yearly_stats, data.yearly_stats)]
    ELSE [all_precipitation |-> Append(acc.all_precipitation, data.precipitation),
          total_rainy_days |-> acc.total_rainy_days + (IF data.is_rainy THEN 1 ELSE 0),
          total_days |-> acc.total_days + 1,
          all_climate_zones |-> acc.all_climate_zones \cup {data.climate_zone},
          all_seasonal_stats |->
              StatsAppend(acc.all_seasonal_stats, data.season, data.precipitation, 1),
          all_monthly_stats |->
              StatsAppend(acc.all_monthly_stats, data.month, data.precipitation, 1),
          all_yearly_stats |->
              StatsAppend(acc.all_yearly_stats, data.year, data.precipitation, 1)]

\* statistics.median of a non-empty list, as an exact rational
Median(s) ==
    LET srt == Sorted(s)
        n == Len(s)
    IN  IF n % 2 = 1 THEN Frac(srt[(n \div 2) + 1], 1)
        ELSE Frac(srt[n \div 2] + srt[(n \div 2) + 1], 2)

\* seasonal_final / monthly_final / yearly_final of the reducer
PrecipConsolidate(all) ==
    [k \in {x \in DOMAIN all : all[x].total_precip # <<>>} |->
        [total_precipitation |-> SeqSum(all[k].total_precip),
         avg_precipitation |-> Mean(all[k].total_precip),
         total_days |-> SeqSum(all[k].days),
         avg_daily_precip |-> Frac(SeqSum(all[k].total_precip), SeqSum(all[k].days))]]

\* the rest of reducer_calculate_precipitation_stats: the lines it yields
PrecipFinalize(country, acc) ==
    IF acc.all_precipitation = <<>> THEN <<>>
    ELSE
      LET total_precip == SeqSum(acc.all_precipitation)
          avg_precip == Mean(acc.all_precipitation)
          result ==
            [country |-> country,
             climate_zones |-> acc.all_climate_zones,
             total_days_analyzed |-> acc.total_days,
             total_precipitation_mm |-> 10 * total_precip,
             average_daily_precipitation |-> Round2(avg_precip),
             median_daily_precipitation |-> Round2(Median(acc.all_precipitation)),
             max_daily_precipitation |-> 10 * SeqMax(acc.all_precipitation),
             humidity_classification |->
                 IF avg_precip.n > 50 * avg_precip.d THEN "muy_humedo"
                 ELSE IF avg_precip.n > 20 * avg_precip.d THEN "humedo"
                 ELSE IF avg_precip.n > 5 * avg_precip.d THEN "moderado"
                 ELSE "arido",
             total_rainy_days |-> acc.total_rainy_days,
             total_dry_days |-> acc.total_days - acc.total_rainy_days,
             rainy_days_percentage |->
                 IF acc.total_days > 0
                 THEN RoundDiv(10000 * acc.total_rainy_days, acc.total_days) ELSE 0,
             avg_precip_on_rainy_days |->
                 IF acc.total_rainy_days > 0
                 THEN RoundDiv(10 * total_precip, acc.total_rainy_days) ELSE 0,
             seasonal_analysis |-> PrecipConsolidate(acc.all_seasonal_stats),
             monthly_analysis |-> PrecipConsolidate(acc.all_monthly_stats),
             yearly_analysis |-> PrecipConsolidate(acc.all_yearly_stats)]
      IN  << <<country, result>> >>

-----------------------------------------------------------------------------
(* ExtremeWeatherAnalysisJob *)
(* A string that is split or joined on '_' (location_key, climate_zone, the  *)
(* composite key, an event type, a severity key) is the sequence of its      *)
(* '_'-separated words, so that joining with '_' is concatenation.           *)

\* --precip-extreme-threshold (default 50.0) and --wind-extreme-threshold (25.0)
PrecipExtremeDefault == 500
WindExtremeDefault == 250

ExtremeHeat == <<"extreme", "heat">>
ExtremeCold == <<"extreme", "cold">>
ExtremePrecipitation == <<"extreme", "precipitation">>
ExtremeWind == <<"extreme", "wind">>
DroughtDay == <<"drought", "day">>
ExtremeHumidity == <<"extreme", "humidity">>
NormalDay == <<"normal", "day">>

\* input lines offered to the extreme-weather job
ExtremeRecords ==
    { [location_key |-> <<"medellin", "colombia">>, climate_zone |-> <<"tropical">>,
       country |-> "Colombia", date |-> <<2024, 1, 15>>,
       temperature_2m_max |-> Num(460), temperature_2m_min |-> Num(280),
       temperature_2m_mean |-> None, precipitation_sum |-> Num(0),
       windspeed_10m_max |-> None, humidity_2m_max |-> None],
      [location_key |-> <<"medellin", "colombia">>, climate_zone |-> <<"tropical">>,
       country |-> "Colombia", date |-> <<2024, 1, 16>>,
       temperature_2m_max |-> Num(420), temperature_2m_min |-> Num(280),
       temperature_2m_mean |-> None, precipitation_sum |-> Num(52),
       windspeed_10m_max |-> Num(121), humidity_2m_max |-> Num(850)],
      [location_key |-> <<"medellin">>, climate_zone |-> <<"colombia", "tropical">>,
       country |-> "Peru", date |-> <<2024, 1, 17>>,
       temperature_2m_max |-> Num(285), temperature_2m_min |-> Num(162),
       temperature_2m_mean |-> Num(223), precipitation_sum |-> Num(52),
       windspeed_10m_max |-> Num(121), humidity_2m_max |-> Num(960)],
      [location_key |-> <<"miami", "usa">>, climate_zone |-> <<"tropical">>,
       country |-> "", date |-> <<2024, 1, 16>>,
       temperature_2m_max |-> Num(321), temperature_2m_min |-> Num(248),
       temperature_2m_mean |-> Num(285), precipitation_sum |-> Num(0),
       windspeed_10m_max |-> Num(185), humidity_2m_max |-> Num(780)] }

\* a heat test that includes the threshold itself
IsExtremeHeatInclusive(temp_max) == temp_max >= 400

\* the mapper's tests of one measurement
IsExtremeHeat(temp_max) == temp_max > 400

IsExtremeCold(temp_min) == temp_min < 0

IsExtremeHumidity(humidity_max) == humidity_max > 950

\* one yield of the mapper: base_event plus the event's own fields (of base_event
\* only the fields a combiner or reducer reads, and the grouping fields, are kept)
Event(r, key, event_type, severity, value) ==
    <<key, [is_partial |-> FALSE,
            location_key |-> r.location_key,
            climate_zone |-> r.climate_zone,
            country |-> r.country,
            event_type |-> event_type,
            severity |-> severity,
            value |-> value]>>

\* mapper_detect_extreme_conditions: the pairs yielded for one input line, in order
ExtremeMapper(opts, r) ==
    IF ~(r.location_key # <<>> /\ r.climate_zone # <<>> /\ r.country # "" /\ r.date # <<>>)
    THEN <<>>
    ELSE IF \E f \in {"temperature_2m_max", "temperature_2m_min", "temperature_2m_mean",
                      "precipitation_sum", "windspeed_10m_max", "humidity_2m_max"} :
               r[f].tag = "str"
    THEN <<>>
    ELSE
      LET has_max == r.temperature_2m_max.tag = "num"
          temp_max == r.temperature_2m_max.v
          has_min == r.temperature_2m_min.tag = "num"
          temp_min == r.temperature_2m_min.v
          precipitation == r.precipitation_sum.v  \* None becomes 0.0
          windspeed == r.windspeed_10m_max.v      \* None becomes 0.0
          has_hum == r.humidity_2m_max.tag = "num"
          humidity_max == r.humidity_2m_max.v
          composite_key == r.location_key \o r.climate_zone
          heat == has_max /\ IsExtremeHeat(temp_max)
          cold == has_min /\ IsExtremeCold(temp_min)
          rain == precipitation >= opts.precip_extreme_threshold
          wind == windspeed >= opts.wind_extreme_threshold
      IN  (IF heat
           THEN <<Event(r, composite_key, ExtremeHeat,
                        IF temp_max > 450 THEN "high" ELSE "medium", Num(temp_max))>>
           ELSE <<>>)
       \o (IF cold
           THEN <<Event(r, composite_key, ExtremeCold,
                        IF temp_min < -100 THEN "high" ELSE "medium", Num(temp_min))>>
           ELSE <<>>)
       \o (IF rain
           THEN <<Event(r, composite_key, ExtremePrecipitation,
                        IF precipitation > 1000 THEN "high" ELSE "medium",
                        Num(precipitation))>>
           ELSE <<>>)
       \o (IF wind
           THEN <<Event(r, composite_key, ExtremeWind,
                        IF windspeed > 500 THEN "high" ELSE "medium", Num(windspeed))>>
           ELSE <<>>)
       \o (IF precipitation = 0
           THEN <<Event(r, composite_key, DroughtDay, "low", Num(precipitation))>>
           ELSE <<>>)
       \o (IF has_hum /\ IsExtremeHumidity(humidity_max)
           THEN <<Event(r, composite_key, ExtremeHumidity, "medium", Num(humidity_max))>>
           ELSE <<>>)
       \o (IF ~(heat \/ cold \/ rain \/ wind)
           THEN <<Event(r, composite_key, NormalDay, "none", None)>>
           ELSE <<>>)

\* Python dicts are association lists in insertion order: <<key, item>> pairs
DictHas(d, k) == \E i \in 1..Len(d) : d[i][1] = k

DictGet(d, k, default) ==
    IF DictHas(d, k) THEN d[CHOOSE i \in 1..Len(d) : d[i][1] = k][2] ELSE default

DictSet(d, k, x) ==
    IF DictHas(d, k) THEN [i \in 1..Len(d) |-> IF d[i][1] = k THEN <<k, x>> ELSE d[i]]
    ELSE Append(d, <<k, x>>)

\* equality of dicts (and of their JSON objects) disregards insertion order
DictItems(d) == {d[i] : i \in 1..Len(d)}

RECURSIVE DictSum(_)
DictSum(d) == IF d = <<>> THEN 0 ELSE Head(d)[2] + DictSum(Tail(d))

\* a count that forgets what it held: counts[k] = n
CountAddOverwrite(counts, k, n) == DictSet(counts, k, n)

\* counts[k] = counts.get(k, 0) + n
CountAdd(counts, k, n) == DictSet(counts, k, DictGet(counts, k, 0) + n)

\* lists[k].extend(xs), creating lists[k] when absent
ListExtend(lists, k, xs) == DictSet(lists, k, DictGet(lists, k, <<>>) \o xs)

\* the accumulation both the combiner and the reducer's raw branch apply to one event
EventAdd(acc, event) ==
    IF event.event_type = NormalDay
    THEN [acc EXCEPT !.total_days = @ + 1, !.normal_days = @ + 1]
    ELSE [acc EXCEPT
            !.total_days = @ + 1,
            !.event_counts = CountAdd(@, event.event_type, 1),
            !.severity_counts = CountAdd(@, event.event_type \o <<event.severity>>, 1),
            !.extreme_values = IF event.value.tag # "none"
                               THEN ListExtend(@, event.event_type, <<event.value.v>>)
                               ELSE @]

ExtremeAccInit ==
    [event_counts |-> <<>>, severity_counts |-> <<>>, extreme_values |-> <<>>,
     normal_days |-> 0, total_days |-> 0]

RECURSIVE EventFold(_, _)
EventFold(acc, events) ==
    IF events = <<>> THEN acc ELSE EventFold(EventAdd(acc, Head(events)), Tail(events))

\* the body of combiner_aggregate_extreme_events's try block over events, all raw
ExtremeAggregate(key, events) ==
    LET acc == EventFold(ExtremeAccInit, events)
    IN  [is_partial |-> TRUE,
         composite_key |-> key,
         event_counts |-> acc.event_counts,
         severity_counts |-> acc.severity_counts,
         extreme_values |-> acc.extreme_values,
         normal_days |-> acc.normal_days,
         total_days |-> acc.total_days]

\* combiner_aggregate_extreme_events: the sequence of values it yields for one key
ExtremeCombiner(key, events) ==
    LET k == FirstPartial(events)
    IN  IF k = 0 THEN <<ExtremeAggregate(key, events)>> ELSE Fallback(events, k)

\* the reducer's accumulators; country "" stands for None
ExtremeReducerInit ==
    [event_counts |-> <<>>, severity_counts |-> <<>>, extreme_values |-> <<>>,
     normal_days |-> 0, total_days |-> 0, country |-> ""]

RECURSIVE CountMerge(_, _)
\* "for k, count in d.items(): counts[k] = counts.get(k, 0) + count"
CountMerge(counts, d) ==
    IF d = <<>> THEN counts
    ELSE CountMerge(CountAdd(counts, Head(d)[1], Head(d)[2]), Tail(d))

RECURSIVE ListMerge(_, _)
ListMerge(lists, d) ==
    IF d = <<>> THEN lists
    ELSE ListMerge(ListExtend(lists, Head(d)[1], Head(d)[2]), Tail(d))

\* one iteration of reducer_analyze_extreme_patterns's loop over values
ExtremeReducerFold(acc, data) ==
    IF data.is_partial
    THEN [event_counts |-> CountMerge(acc.event_counts, data.event_counts),
          severity_counts |-> CountMerge(acc.severity_counts, data.severity_counts),
          extreme_values |-> ListMerge(acc.extreme_values, data.extreme_values),
          normal_days |-> acc.normal_days + data.normal_days,
          total_days |-> acc.total_days + data.total_days,
          country |-> acc.country]
    ELSE [EventAdd(acc, data) EXCEPT !.country = data.country]

\* event_weights and severity_multipliers of _calculate_risk_index (weights in tenths)
EventWeight(event_type) ==
    CASE event_type = ExtremeHeat -> 20
      [] event_type = ExtremeCold -> 15
      [] event_type = ExtremePrecipitation -> 25
      [] event_type = ExtremeWind -> 20
      [] event_type = ExtremeHumidity -> 10
      [] event_type = DroughtDay -> 1
      [] OTHER -> 10

SeverityMultiplier(severity) ==
    CASE severity = "high" -> 3
      [] severity = "medium" -> 2
      [] severity = "low" -> 1
      [] OTHER -> 1

\* str.startswith on '_'-joined words
StartsWith(s, prefix) ==
    Len(prefix) <= Len(s) /\ SubSeq(s, 1, Len(prefix)) = prefix

\* the points one (event type, severity key) pair adds to risk_score, times
\* 10 * total_days: base_weight * frequency_factor * multiplier * 0.01
RiskPoints(event_type, count, severity_key, severity_count) ==
    EventWeight(event_type) * count * SeverityMultiplier(severity_key[Len(severity_key)])

RECURSIVE RiskInner(_, _, _)
RiskInner(event_type, count, severity_counts) ==
    IF severity_counts = <<>> THEN 0
    ELSE (IF StartsWith(Head(severity_counts)[1], event_type)
          THEN RiskPoints(event_type, count,
                          Head(severity_counts)[1], Head(severity_counts)[2])
          ELSE 0)
         + RiskInner(event_type, count, Tail(severity_counts))

RECURSIVE RiskOuter(_, _)
RiskOuter(event_counts, severity_counts) ==
    IF event_counts = <<>> THEN 0
    ELSE RiskInner(Head(event_counts)[1], Head(event_counts)[2], severity_counts)
         + RiskOuter(Tail(event_counts), severity_counts)

\* _calculate_risk_index: round(risk_score, 2), in hundredths
CalculateRiskIndex(event_counts, severity_counts, total_days) ==
    IF event_counts = <<>> THEN 0
    ELSE RoundDiv(10 * RiskOuter(event_counts, severity_counts), total_days)

\* a classification whose thresholds include the threshold value
RiskLevelInclusive(risk_score) ==
    IF risk_score >= 700 THEN "muy_alto"
    ELSE IF risk_score >= 500 THEN "alto"
    ELSE IF risk_score >= 300 THEN "medio"
    ELSE IF risk_score >= 100 THEN "bajo"
    ELSE "muy_bajo"

\* "Clasificar riesgo" of the reducer
RiskLevel(risk_score) ==
    IF risk_score > 700 THEN "muy_alto"
    ELSE IF risk_score > 500 THEN "alto"
    ELSE IF risk_score > 300 THEN "medio"
    ELSE IF risk_score > 100 THEN "bajo"
    ELSE "muy_bajo"

RECURSIVE InsertByCountUnstable(_, _)
\* an insertion that puts an item before the placed items of equal count
InsertByCountUnstable(item, placed) ==
    IF placed = <<>> THEN <<item>>
    ELSE IF Head(placed)[2] > item[2]
         THEN <<Head(placed)>> \o InsertByCountUnstable(item, Tail(placed))
         ELSE <<item>> \o placed

RECURSIVE InsertByCount(_, _)
\* sorted(items, key=count, reverse=True) is stable: an item is placed after the
\* already placed items of greater or equal count
InsertByCount(item, placed) ==
    IF placed = <<>> THEN <<item>>
    ELSE IF Head(placed)[2] >= item[2]
         THEN <<Head(placed)>> \o InsertByCount(item, Tail(placed))
         ELSE <<item>> \o placed

RECURSIVE SortedByCount(_)
\* sorted(event_counts.items(), key=lambda x: x[1], reverse=True)
SortedByCount(items) ==
    IF items = <<>> THEN <<>>
    ELSE InsertByCount(items[Len(items)], SortedByCount(SubSeq(items, 1, Len(items) - 1)))

\* _identify_primary_threats (the description, a fixed text per event type, is
\* left out of an entry)
IdentifyPrimaryThreats(event_counts) ==
    IF event_counts = <<>> THEN <<>>
    ELSE LET sorted_events == SortedByCount(event_counts)
             top == SubSeq(sorted_events, 1,
                           IF Len(sorted_events) < 3 THEN Len(sorted_events) ELSE 3)
             positive == SelectSeq(top, LAMBDA e : e[2] > 0)
         IN  [i \in 1..Len(positive) |->
                 [threat_type |-> positive[i][1], frequency |-> positive[i][2]]]

\* the rest of reducer_analyze_extreme_patterns: the line it yields
ExtremeFinalize(composite_key, acc) ==
    LET location_key == <<composite_key[1]>>       \* composite_key.split('_', 1)
        climate_zone == Tail(composite_key)
        total_extreme_events == DictSum(acc.event_counts)
        risk_score == CalculateRiskIndex(acc.event_counts, acc.severity_counts,
                                         acc.total_days)
        result ==
          [location_key |-> location_key,
           climate_zone |-> climate_zone,
           country |-> acc.country,
           total_days_analyzed |-> acc.total_days,
           normal_days |-> acc.normal_days,
           extreme_days |-> total_extreme_events,
           extreme_percentage |->
               IF acc.total_days > 0
               THEN RoundDiv(10000 * total_extreme_events, acc.total_days) ELSE 0,
           extreme_events_summary |-> acc.event_counts,
           severity_breakdown |-> acc.severity_counts,
           maximum_recorded |->
               [i \in 1..Len(acc.extreme_values) |->
                   <<acc.extreme_values[i][1], SeqMax(acc.extreme_values[i][2])>>],
           average_when_extreme |->
               [i \in 1..Len(acc.extreme_values) |->
                   <<acc.extreme_values[i][1], Round2(Mean(acc.extreme_values[i][2]))>>],
           overall_risk_score |-> risk_score,
           risk_level |-> RiskLevel(risk_score),
           primary_threats |-> IdentifyPrimaryThreats(acc.event_counts)]
    IN  << <<location_key, result>> >>

-----------------------------------------------------------------------------
(* The jobs' steps(), dispatched on the job that runs *)

\* a run of the temperature job: on lines whose string fields are strings, or on
\* lines of any JSON types
TemperatureRuns == {"temperature", "temperature_untyped"}

Records(j) ==
    CASE j = "temperature" -> TempRecords
      [] j = "temperature_untyped" -> TempRecords \cup TempUntypedRecords
      [] j = "precipitation" -> PrecipRecords
      [] j = "extreme" -> ExtremeRecords

Mapper(j, opts, r) ==
    CASE j \in TemperatureRuns -> TempMapper(opts, r)
      [] j = "precipitation" -> PrecipMapper(opts, r)
      [] j = "extreme" -> ExtremeMapper(opts, r)

Combiner(j, key, values) ==
    CASE j \in TemperatureRuns -> TempCombiner(values)
      [] j = "precipitation" -> PrecipCombiner(values)
      [] j = "extreme" -> ExtremeCombiner(key, values)

ReducerInit(j) ==
    CASE j \in TemperatureRuns -> TempReducerInit
      [] j = "precipitation" -> PrecipReducerInit
      [] j = "extreme" -> ExtremeReducerInit

ReducerFold(j, acc, value) ==
    CASE j \in TemperatureRuns -> TempReducerFold(acc, value)
      [] j = "precipitation" -> PrecipReducerFold(acc, value)
      [] j = "extreme" -> ExtremeReducerFold(acc, value)

Finalize(j, key, acc) ==
    CASE j \in TemperatureRuns -> TempFinalize(key, acc)
      [] j = "precipitation" -> PrecipFinalize(key, acc)
      [] j = "extreme" -> ExtremeFinalize(key, acc)

-----------------------------------------------------------------------------
(* The runtime *)

RECURSIVE SeqToBag(_)
SeqToBag(s) == IF s = <<>> THEN EmptyBag
               ELSE SeqToBag(Tail(s)) (+) SetToBag({Head(s)})

RECURSIVE Selections(_)
\* every sequence that arranges some of the elements of bag B
Selections(B) ==
    {<<>>} \cup UNION {{<<e>> \o s : s \in Selections(B (-) SetToBag({e}))} :
                       e \in BagToSet(B)}

\* every order in which all elements of bag B can be iterated
Orderings(B) == {s \in Selections(B) : Len(s) = BagCardinality(B)}

\* the intermediate pairs of key k
OfKey(B, k) == [p \in {q \in BagToSet(B) : q[1] = k} |-> B[p]]

Keys(B) == {p[1] : p \in BagToSet(B)}

Values(pairs) == [i \in 1..Len(pairs) |-> pairs[i][2]]

Pairs(k, values) == [i \in 1..Len(values) |-> <<k, values[i]>>]

RECURSIVE FoldValues(_, _, _)
\* the reducer's loop over the values of its iterator
FoldValues(j, acc, values) ==
    IF values = <<>> THEN acc
    ELSE FoldValues(j, ReducerFold(j, acc, Head(values)), Tail(values))

\* one reducer call: the lines it yields for key k and its values in iteration order
Reducer(j, k, values) ==
    IF j \in TemperatureRuns /\ TempReducerRaises(values)
    THEN <<TempErrorLine(k)>>
    ELSE Finalize(j, k, FoldValues(j, ReducerInit(j), values))

RECURSIVE BagToSeq(_)
\* the elements of bag B in some fixed order
BagToSeq(B) ==
    IF B = EmptyBag THEN <<>>
    ELSE LET e == CHOOSE x \in BagToSet(B) : TRUE
         IN  <<e>> \o BagToSeq(B (-) SetToBag({e}))

RECURSIVE MapAll(_, _, _)
\* everything the mapper yields for a sequence of input lines
MapAll(j, opts, lines) ==
    IF lines = <<>> THEN <<>>
    ELSE Mapper(j, opts, Head(lines)) \o MapAll(j, opts, Tail(lines))

Jobs == {"temperature", "precipitation", "extreme"}

OptionsOf(j) ==
    CASE j \in TemperatureRuns -> {[analysis_type |-> t] : t \in TempAnalysisTypes}
      [] j = "precipitation" -> {[min_precipitation |-> MinPrecipitationDefault]}
      [] j = "extreme" -> {[precip_extreme_threshold |-> PrecipExtremeDefault,
                            wind_extreme_threshold |-> WindExtremeDefault]}

Init ==
    /\ job \in Jobs
    /\ options \in OptionsOf(job)
    /\ input = EmptyBag
    /\ pending = EmptyBag
    /\ phase = "map"
    /\ rounds = 0
    /\ output = <<>>

\* a mapper task reads one more input line
MapLine ==
    /\ phase = "map"
    /\ BagCardinality(input) < MaxRecs
    /\ \E r \in Records(job) :
          /\ Len(MapAll(job, options, BagToSeq(input))) + Len(Mapper(job, options, r))
                <= MaxValues
          /\ input' = input (+) SetToBag({r})
          /\ pending' = pending (+) SeqToBag(Mapper(job, options, r))
    /\ UNCHANGED <<job, options, phase, rounds, output>>

\* one combiner call: the runtime hands it some of the pending values of a key, in
\* some order (values a combiner yielded may be handed to a combiner again), and
\* its yields replace them
Combine ==
    /\ phase = "map"
    /\ \E k \in Keys(pending) :
       \E batch \in Selections(OfKey(pending, k)) \ {<<>>} :
          /\ pending' = (pending (-) SeqToBag(batch))
                        (+) SeqToBag(Pairs(k, Combiner(job, k, Values(batch))))
          /\ rounds' = LET r == IF \E i \in 1..Len(batch) : batch[i][2].is_partial
                                THEN 2 ELSE 1
                       IN  IF r > rounds THEN r ELSE rounds
    /\ UNCHANGED <<job, options, input, phase, output>>

\* all mapper tasks ended: shuffle
StartReduce ==
    /\ phase = "map"
    /\ phase' = "reduce"
    /\ UNCHANGED <<job, options, input, pending, rounds, output>>

\* one reducer call: all values of a key, delivered in some order
Reduce ==
    /\ phase = "reduce"
    /\ \E k \in Keys(pending) :
       \E batch \in Orderings(OfKey(pending, k)) :
          /\ output' = output \o Reducer(job, k, Values(batch))
          /\ pending' = pending (-) SeqToBag(batch)
    /\ UNCHANGED <<job, options, input, phase, rounds>>

\* every key was reduced
Finish ==
    /\ phase = "reduce" /\ pending = EmptyBag
    /\ phase' = "done"
    /\ UNCHANGED <<job, options, input, pending, rounds, output>>

\* the classification of single lines: the extreme-weather mapper applied to one
\* input line drawn from the boundary values of every threshold
ClassifyValues(f) ==
    CASE f = "temperature_2m_max" -> {None, Num(400), Num(401), Num(450), Num(460)}
      [] f = "temperature_2m_min" -> {None, Num(-101), Num(-100), Num(-1), Num(0)}
      [] f = "precipitation_sum" -> {None, Num(0), Num(499), Num(500), Num(1000), Num(1001)}
      [] f = "windspeed_10m_max" -> {None, Num(249), Num(250), Num(500), Num(501)}
      [] f = "humidity_2m_max" -> {None, Bad, Num(950), Num(951)}

ClassifyRecords ==
    {[location_key |-> <<"sydney", "australia">>, climate_zone |-> <<"oceanic">>,
      country |-> "Australia", date |-> <<2024, 1, 17>>,
      temperature_2m_max |-> tmax, temperature_2m_min |-> tmin,
      temperature_2m_mean |-> None, precipitation_sum |-> precip,
      windspeed_10m_max |-> wind, humidity_2m_max |-> hum] :
        tmax \in ClassifyValues("temperature_2m_max"),
        tmin \in ClassifyValues("temperature_2m_min"),
        precip \in ClassifyValues("precipitation_sum"),
        wind \in ClassifyValues("windspeed_10m_max"),
        hum \in ClassifyValues("humidity_2m_max")}

InitClassify ==
    /\ job = "classify"
    /\ options \in OptionsOf("extreme")
    /\ input = EmptyBag
    /\ pending = EmptyBag
    /\ phase = "map"
    /\ rounds = 0
    /\ output = <<>>

\* the mapper processes one line
ClassifyLine ==
    /\ job = "classify" /\ phase = "map"
    /\ \E r \in ClassifyRecords :
          /\ input' = SetToBag({r})
          /\ pending' = SeqToBag(ExtremeMapper(options, r))
    /\ phase' = "done"
    /\ UNCHANGED <<job, options, rounds, output>>

NextClassify == ClassifyLine

SpecClassify == InitClassify /\ [][NextClassify]_vars

\* the assessment of one location: the extreme-weather job on up to
\* MaxAssessRecs lines of one location and zone, all events delivered raw to one
\* reducer call in the order the mapper yielded them
AssessRecords ==
    {[location_key |-> <<"phoenix", "usa">>, climate_zone |-> <<"arid">>,
      country |-> "USA", date |-> <<2024, 1, x.day>>,
      temperature_2m_max |-> x.tmax, temperature_2m_min |-> x.tmin,
      temperature_2m_mean |-> None, precipitation_sum |-> x.precip,
      windspeed_10m_max |-> x.wind, humidity_2m_max |-> x.hum] :
        x \in {\* extreme_heat/high
               [day |-> 1, tmax |-> Num(460), tmin |-> Num(280), precip |-> Num(52),
                wind |-> None, hum |-> None],
               \* extreme_cold/high
               [day |-> 2, tmax |-> Num(10), tmin |-> Num(-110), precip |-> Num(52),
                wind |-> None, hum |-> None],
               \* extreme_cold/medium
               [day |-> 3, tmax |-> Num(10), tmin |-> Num(-50), precip |-> Num(52),
                wind |-> None, hum |-> None],
               \* extreme_precipitation/medium
               [day |-> 4, tmax |-> Num(250), tmin |-> Num(180), precip |-> Num(500),
                wind |-> None, hum |-> None],
               \* extreme_humidity/medium and normal_day
               [day |-> 5, tmax |-> Num(250), tmin |-> Num(180), precip |-> Num(52),
                wind |-> None, hum |-> Num(960)],
               \* normal_day
               [day |-> 6, tmax |-> Num(250), tmin |-> Num(180), precip |-> Num(52),
                wind |-> None, hum |-> None],
               \* extreme_wind/medium
               [day |-> 7, tmax |-> Num(250), tmin |-> Num(180), precip |-> Num(52),
                wind |-> Num(250), hum |-> None],
               \* extreme_heat/high and drought_day/low
               [day |-> 8, tmax |-> Num(460), tmin |-> Num(280), precip |-> Num(0),
                wind |-> None, hum |-> None],
               \* heat, cold, precipitation and wind, all high, and humidity
               [day |-> 9, tmax |-> Num(460), tmin |-> Num(-110), precip |-> Num(1001),
                wind |-> Num(501), hum |-> Num(960)]}}

InitAssess ==
    /\ job = "assess"
    /\ options \in OptionsOf("extreme")
    /\ input = <<>>
    /\ pending = <<>>
    /\ phase = "map"
    /\ rounds = 0
    /\ output = <<>>

\* the mapper processes one more line of the location
AssessLine ==
    /\ job = "assess" /\ phase = "map"
    /\ Len(input) < MaxAssessRecs
    /\ \E r \in AssessRecords :
          /\ input' = Append(input, r)
          /\ pending' = pending \o ExtremeMapper(options, r)
    /\ UNCHANGED <<job, options, phase, rounds, output>>

\* the reducer call of the location's key
AssessReduce ==
    /\ job = "assess" /\ phase = "map"
    /\ pending # <<>>
    /\ output' = Reducer("extreme", pending[1][1], Values(pending))
    /\ phase' = "done"
    /\ UNCHANGED <<job, options, input, pending, rounds>>

NextAssess ==
    \/ AssessLine
    \/ AssessReduce

SpecAssess == InitAssess /\ [][NextAssess]_vars

\* the classification of one country's days: the precipitation job on up to
\* MaxRainRecs lines of one country, whose daily precipitation lies on and about
\* the rainy-day threshold and the humidity tiers; the mapper's values pass
\* through the combiner at most once before the one reducer call
RainRecords ==
    {[country |-> "Colombia", date |-> <<2024, 1, 15>>, climate_zone |-> "tropical",
      location_key |-> "medellin", precipitation_sum |-> Num(p),
      temperature_2m_max |-> Num(240), temperature_2m_min |-> Num(160),
      temperature_2m_mean |-> Num(200),
      windspeed_10m_max |-> None, humidity_2m_max |-> None] :
        p \in {0, 5, 9, 10, 20, 25, 50, 55}}

\* --min-precipitation: the default and 2.0 mm
RainOptions == {[min_precipitation |-> t] : t \in {MinPrecipitationDefault, 20}}

InitRain ==
    /\ job = "rain"
    /\ options \in RainOptions
    /\ input = <<>>
    /\ pending = <<>>
    /\ phase = "map"
    /\ rounds = 0
    /\ output = <<>>

\* the mapper processes one more line of the country
RainLine ==
    /\ job = "rain" /\ phase = "map"
    /\ Len(input) < MaxRainRecs
    /\ \E r \in RainRecords :
          /\ input' = Append(input, r)
          /\ pending' = pending \o PrecipMapper(options, r)
    /\ UNCHANGED <<job, options, phase, rounds, output>>

\* the combiner call on the values the mapper has yielded so far
RainCombine ==
    /\ job = "rain" /\ phase = "map"
    /\ rounds = 0 /\ pending # <<>>
    /\ pending' = Pairs(pending[1][1], PrecipCombiner(Values(pending)))
    /\ rounds' = 1
    /\ UNCHANGED <<job, options, input, phase, output>>

\* the reducer call of the country
RainReduce ==
    /\ job = "rain" /\ phase = "map"
    /\ pending # <<>>
    /\ output' = Reducer("precipitation", pending[1][1], Values(pending))
    /\ phase' = "done"
    /\ UNCHANGED <<job, options, input, pending, rounds>>

NextRain ==
    \/ RainLine
    \/ RainCombine
    \/ RainReduce

SpecRain == InitRain /\ [][NextRain]_vars

\* the comfort analysis of one zone: the temperature job on up to MaxComfortRecs
\* lines of one zone and month, whose daily mean lies on and about the limits of
\* the comfort classes; the mapper's values pass through the combiner at most
\* once before the one reducer call
ComfortRecords ==
    {[location_key |-> "medellin", climate_zone |-> "tropical", country |-> "Colombia",
      date |-> <<2024, 1, 15>>,
      temperature_2m_max |-> Num(t + 50), temperature_2m_min |-> Num(t - 50),
      temperature_2m_mean |-> Num(t), precipitation_sum |-> Num(0),
      windspeed_10m_max |-> None, humidity_2m_max |-> None] :
        t \in {99, 100, 179, 180, 260, 261, 300, 301}}

InitComfort ==
    /\ job = "comfort"
    /\ options \in OptionsOf("temperature")
    /\ input = <<>>
    /\ pending = <<>>
    /\ phase = "map"
    /\ rounds = 0
    /\ output = <<>>

\* the mapper processes one more line of the zone
ComfortLine ==
    /\ job = "comfort" /\ phase = "map"
    /\ Len(input) < MaxComfortRecs
    /\ \E r \in ComfortRecords :
          /\ input' = Append(input, r)
          /\ pending' = pending \o TempMapper(options, r)
    /\ UNCHANGED <<job, options, phase, rounds, output>>

\* the combiner call on the values the mapper has yielded so far
ComfortCombine ==
    /\ job = "comfort" /\ phase = "map"
    /\ rounds = 0 /\ pending # <<>>
    /\ pending' = Pairs(pending[1][1], TempCombiner(Values(pending)))
    /\ rounds' = 1
    /\ UNCHANGED <<job, options, input, phase, output>>

\* the reducer call of the zone's key
ComfortReduce ==
    /\ job = "comfort" /\ phase = "map"
    /\ pending # <<>>
    /\ output' = Reducer("temperature", pending[1][1], Values(pending))
    /\ phase' = "done"
    /\ UNCHANGED <<job, options, input, pending, rounds>>

NextComfort ==
    \/ ComfortLine
    \/ ComfortCombine
    \/ ComfortReduce

SpecComfort == InitComfort /\ [][NextComfort]_vars

-----------------------------------------------------------------------------
(* The simplified jobs AnalisisTemperatura, AnalisisPrecipitacion and          *)
(* AnalisisClimaExtremo. A value is the dict the mapper or the combiner dumps, *)
(* a record whose DOMAIN is the dict's keys; a dict of counts is a function.   *)

SimpleJobs == {"analisis_temperatura", "analisis_precipitacion", "analisis_clima_extremo"}

\* the passthru options at their defaults: --min-precipitation 1.0 and
\* --precip-extreme-threshold 50.0
SimpleOptions == [min_precipitation |-> 10, precip_extreme_threshold |-> 500]

\* input lines of one location, zone and country offered to the simplified jobs
SimpleRecords ==
    {[location_key |-> <<"medellin", "colombia">>, climate_zone |-> <<"tropical">>,
      country |-> "Colombia", date |-> <<2024, 1, x.day>>,
      temperature_2m_max |-> x.tmax, temperature_2m_min |-> x.tmin,
      temperature_2m_mean |-> None, precipitation_sum |-> x.precip,
      windspeed_10m_max |-> None, humidity_2m_max |-> None] :
        x \in {\* calor_extremo and sequia
               [day |-> 1, tmax |-> Num(460), tmin |-> Num(280), precip |-> Num(0)],
               \* precipitacion_extrema
               [day |-> 2, tmax |-> Num(240), tmin |-> Num(160), precip |-> Num(520)],
               \* frio_extremo
               [day |-> 3, tmax |-> Num(10), tmin |-> Num(-50), precip |-> Num(52)],
               \* no event
               [day |-> 4, tmax |-> Num(240), tmin |-> Num(160), precip |-> Num(52)]}}

\* AnalisisTemperatura.mapper: the pairs yielded for one input line
AnalisisTemperaturaMapper(r) ==
    IF ~(r.climate_zone # <<>> /\ r.temperature_2m_max.tag # "none"
         /\ r.temperature_2m_min.tag # "none")
    THEN <<>>
    \* float() raises ValueError: "except: pass"
    ELSE IF r.temperature_2m_max.tag = "str" \/ r.temperature_2m_min.tag = "str"
            \/ r.temperature_2m_mean.tag = "str"
    THEN <<>>
    ELSE
      LET temp_max == r.temperature_2m_max.v
          temp_min == r.temperature_2m_min.v
          temp_mean == IF r.temperature_2m_mean.tag = "none"
                       THEN (temp_max + temp_min) \div 2
                       ELSE r.temperature_2m_mean.v
      IN  << <<r.climate_zone,
               [temp_max |-> temp_max, temp_min |-> temp_min,
                temp_mean |-> temp_mean, country |-> r.country]>> >>

\* AnalisisPrecipitacion.mapper: the pairs yielded for one input line
AnalisisPrecipitacionMapper(opts, r) ==
    IF ~(r.country # "" /\ r.precipitation_sum.tag # "none") THEN <<>>
    \* float() of an unparseable (non-empty) string raises: "except: pass"
    ELSE IF r.precipitation_sum.tag = "str" THEN <<>>
    ELSE
      LET precip_valor == r.precipitation_sum.v
      IN  << <<r.country,
               [precipitation |-> precip_valor,
                is_rainy |-> precip_valor >= opts.min_precipitation,
                climate_zone |-> r.climate_zone]>> >>

\* AnalisisClimaExtremo.mapper: the pairs yielded for one input line
AnalisisClimaExtremoMapper(opts, r) ==
    IF ~(r.location_key # <<>> /\ r.climate_zone # <<>> /\ r.country # "") THEN <<>>
    ELSE IF r.temperature_2m_max.tag = "str" \/ r.temperature_2m_min.tag = "str"
            \/ r.precipitation_sum.tag = "str"
    THEN <<>>
    ELSE
      LET temp_max == r.temperature_2m_max
          temp_min == r.temperature_2m_min
          precipitacion == IF r.precipitation_sum.tag = "none" THEN 0
                           ELSE r.precipitation_sum.v
          eventos ==
            (IF temp_max.tag = "num" /\ temp_max.v > 400
             THEN <<[tipo |-> "calor_extremo", valor |-> temp_max.v]>> ELSE <<>>)
            \o (IF temp_min.tag = "num" /\ temp_min.v < 0
                THEN <<[tipo |-> "frio_extremo", valor |-> temp_min.v]>> ELSE <<>>)
            \o (IF precipitacion >= opts.precip_extreme_threshold
                THEN <<[tipo |-> "precipitacion_extrema", valor |-> precipitacion]>>
                ELSE <<>>)
            \o (IF precipitacion = 0
                THEN <<[tipo |-> "sequia", valor |-> 0]>> ELSE <<>>)
      IN  IF eventos = <<>> THEN <<>>
          ELSE << <<r.location_key \o r.climate_zone,
                    [location |-> r.location_key, country |-> r.country,
                     zone |-> r.climate_zone, events |-> eventos]>> >>

SimpleMapper(j, opts, r) ==
    CASE j = "analisis_temperatura" -> AnalisisTemperaturaMapper(r)
      [] j = "analisis_precipitacion" -> AnalisisPrecipitacionMapper(opts, r)
      [] j = "analisis_clima_extremo" -> AnalisisClimaExtremoMapper(opts, r)

\* the keys a combiner reads from each of its values
CombinerReads(j) ==
    CASE j = "analisis_temperatura" -> {"temp_max", "temp_min", "temp_mean", "country"}
      [] j = "analisis_precipitacion" -> {"precipitation", "is_rainy", "climate_zone"}
      [] j = "analisis_clima_extremo" -> {"location", "country", "zone", "events"}

\* the keys a reducer reads from each of its values
ReducerReads(j) ==
    CASE j = "analisis_temperatura" -> {"temps_max", "temps_min", "temps_mean", "countries"}
      [] j = "analisis_precipitacion" ->
            {"precipitations", "rainy_days", "total_days", "zones"}
      [] j = "analisis_clima_extremo" ->
            {"location", "country", "zone", "total_events", "events_by_type"}

\* datos[...] raises KeyError on one of the values: the call has no except branch
RaisesKeyError(reads, valores) ==
    \E i \in 1..Len(valores) : ~(reads \subseteq DOMAIN valores[i])

RECURSIVE Flatten(_)
\* the concatenation of a sequence of lists
Flatten(lists) == IF lists = <<>> THEN <<>> ELSE Head(lists) \o Flatten(Tail(lists))

\* AnalisisTemperatura.combiner: the dict it yields
AnalisisTemperaturaCombiner(valores) ==
    [count |-> Len(valores),
     temps_max |-> [i \in 1..Len(valores) |-> valores[i].temp_max],
     temps_min |-> [i \in 1..Len(valores) |-> valores[i].temp_min],
     temps_mean |-> [i \in 1..Len(valores) |-> valores[i].temp_mean],
     countries |-> {valores[i].country : i \in 1..Len(valores)}]

\* AnalisisPrecipitacion.combiner: the dict it yields
AnalisisPrecipitacionCombiner(valores) ==
    [precipitations |-> [i \in 1..Len(valores) |-> valores[i].precipitation],
     rainy_days |-> Cardinality({i \in 1..Len(valores) : valores[i].is_rainy}),
     total_days |-> Len(valores),
     zones |-> {valores[i].climate_zone : i \in 1..Len(valores)}]

\* AnalisisClimaExtremo.combiner: the dict it yields
AnalisisClimaExtremoCombiner(valores) ==
    LET eventos == Flatten([i \in 1..Len(valores) |-> valores[i].events])
        last == valores[Len(valores)]
    IN  [location |-> last.location, country |-> last.country, zone |-> last.zone,
         events_by_type |->
             [t \in {eventos[i].tipo : i \in 1..Len(eventos)} |->
                 Cardinality({i \in 1..Len(eventos) : eventos[i].tipo = t})],
         total_events |-> Len(eventos)]

\* one combiner call of a simplified job: whether it raises, and what it yields
SimpleCombiner(j, valores) ==
    IF RaisesKeyError(CombinerReads(j), valores)
    THEN [raised |-> TRUE, yields |-> <<>>]
    ELSE [raised |-> FALSE,
          yields |-> CASE j = "analisis_temperatura" ->
                            <<AnalisisTemperaturaCombiner(valores)>>
                       [] j = "analisis_precipitacion" ->
                            <<AnalisisPrecipitacionCombiner(valores)>>
                       [] j = "analisis_clima_extremo" ->
                            <<AnalisisClimaExtremoCombiner(valores)>>]

\* AnalisisTemperatura.reducer: the line it yields
AnalisisTemperaturaReducer(zona, valores) ==
    LET todas_temps_max == Flatten([i \in 1..Len(valores) |-> valores[i].temps_max])
        todas_temps_min == Flatten([i \in 1..Len(valores) |-> valores[i].temps_min])
        todas_temps_mean == Flatten([i \in 1..Len(valores) |-> valores[i].temps_mean])
    IN  <<zona,
          [zona_climatica |-> zona,
           total_registros |-> Len(todas_temps_mean),
           paises |-> UNION {valores[i].countries : i \in 1..Len(valores)},
           temperatura_promedio |-> Round2(Mean(todas_temps_mean)),
           temperatura_maxima_general |-> 10 * SeqMax(todas_temps_max),
           temperatura_minima_general |-> 10 * SeqMin(todas_temps_min),
           variabilidad_temperatura |->
               IF Len(todas_temps_mean) > 1 THEN Stdev2(todas_temps_mean) ELSE 0]>>

\* AnalisisPrecipitacion.reducer: the line it yields
AnalisisPrecipitacionReducer(pais, valores) ==
    LET todas == Flatten([i \in 1..Len(valores) |-> valores[i].precipitations])
        total_dias_lluviosos == SeqSum([i \in 1..Len(valores) |-> valores[i].rainy_days])
        total_dias == SeqSum([i \in 1..Len(valores) |-> valores[i].total_days])
    IN  <<pais,
          [pais |-> pais,
           zonas_climaticas |-> UNION {valores[i].zones : i \in 1..Len(valores)},
           total_dias_analizados |-> total_dias,
           precipitacion_total_mm |-> 10 * SeqSum(todas),
           precipitacion_promedio_diaria |-> Round2(Mean(todas)),
           porcentaje_dias_lluviosos |->
               IF total_dias > 0 THEN RoundDiv(10000 * total_dias_lluviosos, total_dias)
               ELSE 0]>>

\* AnalisisClimaExtremo.reducer: the line it yields
AnalisisClimaExtremoReducer(clave, valores) ==
    LET last == valores[Len(valores)]
        tipos == UNION {DOMAIN valores[i].events_by_type : i \in 1..Len(valores)}
    IN  <<clave,
          [ubicacion |-> last.location, zona_climatica |-> last.zone,
           pais |-> last.country,
           total_eventos |-> SeqSum([i \in 1..Len(valores) |-> valores[i].total_events]),
           eventos_por_tipo |->
               [t \in tipos |->
                   SeqSum([i \in 1..Len(valores) |->
                             IF t \in DOMAIN valores[i].events_by_type
                             THEN valores[i].events_by_type[t] ELSE 0])]]>>

\* one reducer call of a simplified job: whether it raises, and what it yields
SimpleReducer(j, key, valores) ==
    IF RaisesKeyError(ReducerReads(j), valores)
    THEN [raised |-> TRUE, yields |-> <<>>]
    ELSE [raised |-> FALSE,
          yields |-> CASE j = "analisis_temperatura" ->
                            <<AnalisisTemperaturaReducer(key, valores)>>
                       [] j = "analisis_precipitacion" ->
                            <<AnalisisPrecipitacionReducer(key, valores)>>
                       [] j = "analisis_clima_extremo" ->
                            <<AnalisisClimaExtremoReducer(key, valores)>>]

\* a run of a simplified job on up to MaxSimpleRecs lines of one group; the
\* runtime may hand the mapper's values to the combiner before the one reducer
\* call, or hand them to the reducer as they are
InitSimple ==
    /\ job \in SimpleJobs
    /\ options = SimpleOptions
    /\ input = <<>>
    /\ pending = <<>>
    /\ phase = "map"
    /\ rounds = 0
    /\ output = <<>>

\* the mapper processes one more line
SimpleLine ==
    /\ job \in SimpleJobs /\ phase = "map"
    /\ Len(input) < MaxSimpleRecs
    /\ \E r \in SimpleRecords :
          /\ input' = Append(input, r)
          /\ pending' = pending \o SimpleMapper(job, options, r)
    /\ UNCHANGED <<job, options, phase, rounds, output>>

\* the combiner call on the pending values of the key; an exception ends the job
SimpleCombine ==
    /\ job \in SimpleJobs /\ phase = "map"
    /\ pending # <<>>
    /\ LET call == SimpleCombiner(job, Values(pending))
       IN  /\ pending' = IF call.raised THEN pending
                         ELSE Pairs(pending[1][1], call.yields)
           /\ phase' = IF call.raised THEN "failed" ELSE phase
    /\ rounds' = rounds + 1
    /\ UNCHANGED <<job, options, input, output>>

\* the reducer call of the key; an exception ends the job without output
SimpleReduce ==
    /\ job \in SimpleJobs /\ phase = "map"
    /\ pending # <<>>
    /\ LET call == SimpleReducer(job, pending[1][1], Values(pending))
       IN  /\ output' = call.yields
           /\ phase' = IF call.raised THEN "failed" ELSE "done"
    /\ UNCHANGED <<job, options, input, pending, rounds>>

NextSimple ==
    \/ SimpleLine
    \/ SimpleCombine
    \/ SimpleReduce

SpecSimple == InitSimple /\ [][NextSimple]_vars

-----------------------------------------------------------------------------

(* WeatherDataExtractor._make_request_with_retry. In a call of it, rounds is  *)
(* the loop variable attempt, input the outcomes of the requests made so far,  *)
(* pending the time.sleep() calls made so far (in seconds), output the value   *)
(* returned (empty until the call returns) and phase where the call stands.    *)

\* self.max_retries and self.retry_delay (seconds) as __init__ sets them
MaxRetriesDefault == 3
RetryDelayDefault == 2

\* what one request can end in: a JSON object without an 'error' key (with its
\* data), a JSON object with one, a RequestException (connection, timeout,
\* HTTP status), or a body that is not JSON; the archive API answers with a
\* JSON object, so bodies of another JSON type are not among the outcomes
RequestOutcomes ==
    {[kind |-> "ok", data |-> Num(d)] : d \in {1, 2}}
    \cup {[kind |-> k, data |-> None] : k \in {"api_error", "http_error", "bad_json"}}

\* a schedule that waits the same delay before every retry
RetryWaitConstant(retry_delay, attempt) == retry_delay

\* the argument of time.sleep(): self.retry_delay * (attempt + 1)
RetryWait(retry_delay, attempt) == retry_delay * (attempt + 1)

\* a call with max_retries left to the default or passed by the caller
InitRetry ==
    /\ job = "retry"
    /\ options \in {[max_retries |-> m, retry_delay |-> RetryDelayDefault] :
                      m \in 0..MaxRetriesDefault}
    /\ input = <<>>
    /\ pending = <<>>
    /\ phase = "request"
    /\ rounds = 0
    /\ output = <<>>

\* one iteration of "for attempt in range(max_retries + 1)": the request, then
\* return of the data, or sleep and continue, or (last attempt) return None for
\* an API error and fall out of the loop for an exception
RetryAttempt ==
    /\ job = "retry" /\ phase = "request"
    /\ rounds <= options.max_retries
    /\ \E outcome \in RequestOutcomes :
          /\ input' = Append(input, outcome)
          /\ IF outcome.kind = "ok"
             THEN /\ output' = <<outcome.data>>
                  /\ phase' = "returned"
                  /\ UNCHANGED <<pending, rounds>>
             ELSE IF rounds < options.max_retries
             THEN /\ pending' = Append(pending, RetryWait(options.retry_delay, rounds))
                  /\ rounds' = rounds + 1
                  /\ UNCHANGED <<phase, output>>
             ELSE IF outcome.kind = "api_error"
             THEN /\ output' = <<None>>
                  /\ phase' = "returned"
                  /\ UNCHANGED <<pending, rounds>>
             ELSE /\ rounds' = rounds + 1
                  /\ UNCHANGED <<pending, phase, output>>
    /\ UNCHANGED <<job, options>>

\* the loop is exhausted: the final "return None"
RetryExhausted ==
    /\ job = "retry" /\ phase = "request"
    /\ rounds > options.max_retries
    /\ output' = <<None>>
    /\ phase' = "returned"
    /\ UNCHANGED <<job, options, input, pending, rounds>>

NextRetry ==
    \/ RetryAttempt
    \/ RetryExhausted

\* the call runs to its end: nothing but its own steps can hold it up
SpecRetry == InitRetry /\ [][NextRetry]_vars /\ WF_vars(NextRetry)

\* a run of the temperature job on lines of any JSON types
InitUntyped ==
    /\ job = "temperature_untyped"
    /\ options \in OptionsOf(job)
    /\ input = EmptyBag
    /\ pending = EmptyBag
    /\ phase = "map"
    /\ rounds = 0
    /\ output = <<>>

Next ==
    \/ MapLine
    \/ Combine
    \/ StartReduce
    \/ Reduce
    \/ Finish

Spec == Init /\ [][Next]_vars

SpecUntyped == InitUntyped /\ [][Next]_vars

-----------------------------------------------------------------------------
(* Reference results: every key's values reduced raw, in one pass *)

Range(f) == {f[i] : i \in DOMAIN f}

\* what the mapper yields for the input lines consumed so far
Mapped == MapAll(job, options, BagToSeq(input))

\* the lines a run yields when no combiner runs
RawLines ==
    UNION {Range(Reducer(job, k, Values(SelectSeq(Mapped, LAMBDA p : p[1] = k)))) :
           k \in {Mapped[i][1] : i \in 1..Len(Mapped)}}

OutputLines == Range(output)

\* the input lines the mapper accepted (yielded at least one value for)
Accepted == SelectSeq(BagToSeq(input), LAMBDA r : Mapper(job, options, r) # <<>>)

\* a run ended in which every value passed through at most one combiner call
DoneOnce(j) == job = j /\ phase = "done" /\ rounds <= 1

-----------------------------------------------------------------------------
(* C1 *)

\* C1 (as claimed): in the precipitation job, however the accepted records of a
\* country are split into batches that pass through the combiner once or reach
\* the reducer raw, and in whatever order, the reducer emits the statistics of
\* reducing all records raw, seasonal/monthly/yearly avg_precipitation included.
C1_PrecipCombinerTransparent ==
    DoneOnce("precipitation") => OutputLines = RawLines

-----------------------------------------------------------------------------
(* C2 *)

\* the fields of an extreme-weather result that C2 names
ExtremeNamedFields(line) ==
    [country |-> line[2].country,
     total_days_analyzed |-> line[2].total_days_analyzed,
     normal_days |-> line[2].normal_days,
     extreme_days |-> line[2].extreme_days,
     extreme_events_summary |-> DictItems(line[2].extreme_events_summary),
     severity_breakdown |-> DictItems(line[2].severity_breakdown),
     overall_risk_score |-> line[2].overall_risk_score,
     risk_level |-> line[2].risk_level]

\* C2 (as claimed): in the extreme-weather job, however the events of a composite
\* key are split into batches that pass through the combiner once or reach the
\* reducer raw, the reducer emits the same country, day counts, event summary,
\* severity breakdown, risk score and risk level as reducing all events raw.
C2_ExtremeCombinerTransparent ==
    DoneOnce("extreme") =>
        {ExtremeNamedFields(l) : l \in OutputLines}
            = {ExtremeNamedFields(l) : l \in RawLines}

-----------------------------------------------------------------------------
(* C3 *)

\* C3: in the temperature job, however the accepted records of a key are split
\* into batches that pass through the combiner once or reach the reducer raw, and
\* in whatever order, the reducer emits one line per key with the statistics
\* (record_count, countries, mean, max, min, daily averages, variability,
\* quartiles, comfort counts) of reducing all records raw in one pass.
C3_TempCombinerTransparent ==
    DoneOnce("temperature") =>
        OutputLines = RawLines /\ Len(output) = Cardinality(RawLines)

\* a temperature run ended in which a combiner ran and a key has 3 records
C3_Witness ==
    /\ DoneOnce("temperature") /\ rounds = 1
    /\ \E l \in OutputLines : l[2].record_count >= 3 /\ l[2].temperature_variability > 0

-----------------------------------------------------------------------------
(* C4 *)

\* the original records a value stands for
Weight(j, value) ==
    IF ~value.is_partial THEN 1
    ELSE IF j = "temperature" THEN value.record_count ELSE value.total_days

RECURSIVE TotalWeight(_, _)
TotalWeight(j, values) ==
    IF values = <<>> THEN 0 ELSE Weight(j, Head(values)) + TotalWeight(j, Tail(values))

\* C4 (as claimed): a combiner handed values that include the output of an earlier
\* combiner call yields one partial accumulator that accounts for every original
\* record behind its inputs.
C4_CombinerAcceptsPartials ==
    phase = "map" =>
        \A k \in Keys(pending) :
        \A batch \in Selections(OfKey(pending, k)) :
            (\E i \in 1..Len(batch) : batch[i][2].is_partial) =>
                LET yields == Combiner(job, k, Values(batch))
                IN  /\ Len(yields) = 1
                    /\ yields[1].is_partial
                    /\ TotalWeight(job, yields) = TotalWeight(job, Values(batch))

-----------------------------------------------------------------------------
(* C5 *)

\* the accepted input lines whose composite key is k
AcceptedOfKey(k) ==
    SelectSeq(Accepted, LAMBDA r : Mapper(job, options, r)[1][1] = k)

\* C5 (as claimed): every line the extreme-weather job emits has total_days_analyzed
\* equal to the number of valid input records of its location and zone, each
\* record counted once however many event types it matches.
C5_ExtremeCountsRecords ==
    (job = "extreme" /\ phase = "done") =>
        \A l \in OutputLines :
            l[2].total_days_analyzed
                = Len(AcceptedOfKey(l[2].location_key \o l[2].climate_zone))

-----------------------------------------------------------------------------
(* C6 *)

RECURSIVE SumRecordCount(_)
SumRecordCount(lines) ==
    IF lines = <<>> THEN 0
    ELSE Head(lines)[2].record_count + SumRecordCount(Tail(lines))

\* C6 (as claimed): when the temperature job ends, under any combiner/reducer
\* schedule, the record_count of the emitted lines sums to the number of input
\* records the mapper accepted.
C6_TempCountConservation ==
    (job = "temperature" /\ phase = "done") =>
        SumRecordCount(output) = Len(Accepted)

-----------------------------------------------------------------------------
(* C7 *)

\* C7 (as claimed): two accepted records of the extreme-weather job whose
\* (location_key, climate_zone) pairs differ never get the same composite key.
C7_CompositeKeyInjective ==
    job = "extreme" =>
        \A i, j \in 1..Len(Accepted) :
            <<Accepted[i].location_key, Accepted[i].climate_zone>>
                # <<Accepted[j].location_key, Accepted[j].climate_zone>>
            => Mapper(job, options, Accepted[i])[1][1]
                   # Mapper(job, options, Accepted[j])[1][1]

-----------------------------------------------------------------------------
(* C8 *)

RECURSIVE ClaimedRiskPoints(_)
\* sum over the recorded (event type, severity) pairs of
\* weight(type) * that severity's count * multiplier(severity), in tenths
ClaimedRiskPoints(severity_counts) ==
    IF severity_counts = <<>> THEN 0
    ELSE LET sk == Head(severity_counts)[1]
         IN  EventWeight(SubSeq(sk, 1, Len(sk) - 1)) * Head(severity_counts)[2]
                 * SeverityMultiplier(sk[Len(sk)])
             + ClaimedRiskPoints(Tail(severity_counts))

\* C8 (as claimed): the emitted risk score is the sum, over each event type and
\* each severity recorded for it, of weight x (that severity's count / total_days
\* x 100) x multiplier x 0.01, rounded to 2 decimals.
C8_RiskUsesSeverityShare ==
    (job = "extreme" /\ phase = "done") =>
        \A l \in OutputLines :
            l[2].total_days_analyzed > 0 =>
                l[2].overall_risk_score
                    = RoundDiv(10 * ClaimedRiskPoints(l[2].severity_breakdown),
                               l[2].total_days_analyzed)

-----------------------------------------------------------------------------
(* C9, C10: the table of conditions, read off the input line *)

Present(x) == x.tag = "num"

\* absent precipitation and wind speed count as 0
OrZero(x) == IF x.tag = "num" THEN x.v ELSE 0

\* the events the table assigns to a line: <<event type, severity>> pairs
TableEvents(opts, r) ==
    LET tmax == r.temperature_2m_max
        tmin == r.temperature_2m_min
        precip == OrZero(r.precipitation_sum)
        wind == r.windspeed_10m_max
        hum == r.humidity_2m_max
    IN  (IF Present(tmax) /\ tmax.v > 400
         THEN {<<ExtremeHeat, IF tmax.v > 450 THEN "high" ELSE "medium">>} ELSE {})
        \cup
        (IF Present(tmin) /\ tmin.v < 0
         THEN {<<ExtremeCold, IF tmin.v < -100 THEN "high" ELSE "medium">>} ELSE {})
        \cup
        (IF precip >= opts.precip_extreme_threshold
         THEN {<<ExtremePrecipitation, IF precip > 1000 THEN "high" ELSE "medium">>}
         ELSE {})
        \cup
        (IF Present(wind) /\ wind.v >= opts.wind_extreme_threshold
         THEN {<<ExtremeWind, IF wind.v > 500 THEN "high" ELSE "medium">>} ELSE {})
        \cup
        (IF precip = 0 THEN {<<DroughtDay, "low">>} ELSE {})
        \cup
        (IF Present(hum) /\ hum.v > 950 THEN {<<ExtremeHumidity, "medium">>} ELSE {})

\* the <<event type, severity>> pairs of the events the mapper yielded
YieldedEvents == {<<p[2].event_type, p[2].severity>> : p \in BagToSet(pending)}

\* the mapper classified a line it accepted
Classified == job = "classify" /\ phase = "done" /\ pending # EmptyBag

TheLine == CHOOSE r \in BagToSet(input) : TRUE

\* C9 (as claimed): for every valid record the mapper emits normal_day/none if and
\* only if the record matched none of extreme_heat, extreme_cold,
\* extreme_precipitation, extreme_wind and extreme_humidity.
C9_NormalDayIffNoHighMedium ==
    Classified =>
        (<<NormalDay, "none">> \in YieldedEvents
            <=> \A e \in TableEvents(options, TheLine) : e[2] \notin {"high", "medium"})

\* C10: for every valid record the mapper emits exactly the events of the table,
\* with the table's severities (and, besides them, at most normal_day).
C10_EventsMatchTable ==
    Classified =>
        /\ YieldedEvents \ {<<NormalDay, "none">>} = TableEvents(options, TheLine)
        /\ \A p \in BagToSet(pending) : pending[p] = 1

\* a line with max temperature 46 and precipitation 0.0 was classified as
\* extreme_heat/high and drought_day/low
C10_Witness ==
    /\ Classified
    /\ TheLine.temperature_2m_max = Num(460) /\ TheLine.precipitation_sum = Num(0)
    /\ {<<ExtremeHeat, "high">>, <<DroughtDay, "low">>} \subseteq YieldedEvents

-----------------------------------------------------------------------------
(* C11, C12, C13: validation, read off the input line *)

\* an absent string field: "" (or <<>> where the field is kept as '_'-separated words)
NoText(j, x) == IF j = "extreme" THEN x = <<>> ELSE x = ""

\* the line lacks location_key, climate_zone, country or date, or both
\* temperature bounds
LacksRequired(j, r) ==
    \/ NoText(j, r.location_key)
    \/ NoText(j, r.climate_zone)
    \/ r.country = ""
    \/ r.date = <<>>
    \/ (r.temperature_2m_max = None /\ r.temperature_2m_min = None)

\* a temperature or precipitation field of the line is present but not a number
Unparseable(r) ==
    \E f \in {"temperature_2m_max", "temperature_2m_min", "temperature_2m_mean",
              "precipitation_sum"} : r[f] = Bad

\* C11 (as claimed): in each of the three jobs the mapper yields nothing for a line
\* that lacks location_key, climate_zone, country or date, or both temperature
\* bounds.
C11_RequiredFieldsValidated ==
    job \in Jobs =>
        \A r \in BagToSet(input) :
            LacksRequired(job, r) => Mapper(job, options, r) = <<>>

\* C12 (as claimed): in each of the three jobs the mapper yields nothing for a line
\* whose temperature or precipitation field is present but not parseable as a
\* number.
C12_UnparseableRejected ==
    job \in Jobs =>
        \A r \in BagToSet(input) :
            Unparseable(r) => Mapper(job, options, r) = <<>>

\* C13 (as claimed): a line with every required field and parseable numbers but no
\* precipitation_sum is kept as a day of 0 mm: the precipitation mapper yields one
\* non-rainy value of precipitation 0 for it and the extreme-weather mapper yields
\* a drought_day event for it.
C13_AbsentPrecipitationIsZero ==
    \A r \in BagToSet(input) :
        (~LacksRequired(job, r) /\ ~Unparseable(r) /\ r.precipitation_sum = None) =>
            LET yields == Mapper(job, options, r)
            IN  /\ job = "precipitation" =>
                      /\ Len(yields) = 1
                      /\ yields[1][2].precipitation = 0
                      /\ ~yields[1][2].is_rainy
                /\ job = "extreme" =>
                      \E i \in 1..Len(yields) : yields[i][2].event_type = DroughtDay

-----------------------------------------------------------------------------
(* C14 *)

\* the season of a month: 12, 1, 2 winter; 3, 4, 5 spring; 6, 7, 8 summer;
\* 9, 10, 11 autumn
SeasonOf(month) ==
    CASE month \in {12, 1, 2} -> "winter"
      [] month \in {3, 4, 5} -> "spring"
      [] month \in {6, 7, 8} -> "summer"
      [] month \in {9, 10, 11} -> "autumn"

\* the group an accepted input line belongs to
GroupKey(j, opts, r) ==
    CASE j = "temperature" ->
            <<r.climate_zone,
              IF opts.analysis_type = "seasonal" THEN SeasonOf(r.date[2]) ELSE "all",
              IF opts.analysis_type = "monthly" THEN r.date[2] ELSE 0>>
      [] j = "precipitation" -> <<r.country>>
      [] j = "extreme" -> <<r.location_key, r.climate_zone>>

\* C14 (as claimed): when a job ends (no value having passed through more than one
\* combiner call), it has emitted as many lines as there are groups with at least
\* one accepted input line: one line per non-empty group, none for another.
C14_OneLinePerGroup ==
    (job \in Jobs /\ phase = "done" /\ rounds <= 1) =>
        Len(output) = Cardinality({GroupKey(job, options, Accepted[i]) :
                                      i \in 1..Len(Accepted)})

-----------------------------------------------------------------------------
(* C15 *)

\* C15 (as claimed): whatever the input lines and the combiner/reducer schedule,
\* no emitted line has the key "ERROR".
C15_NoErrorLines ==
    \A i \in 1..Len(output) : output[i][1] # "ERROR"

-----------------------------------------------------------------------------
(* C16 *)

\* the identity accumulator of a job: a partial with zero observations
Identity(j, k) ==
    CASE j = "temperature" ->
            [is_partial |-> TRUE,
             temp_max_values |-> <<>>, temp_min_values |-> <<>>,
             temp_mean_values |-> <<>>, temp_range_values |-> <<>>,
             countries |-> {}, record_count |-> 0]
      [] j = "precipitation" ->
            [is_partial |-> TRUE,
             total_precipitation |-> 0, precipitation_values |-> <<>>,
             rainy_days |-> 0, total_days |-> 0,
             seasonal_stats |-> <<>>, monthly_stats |-> <<>>, yearly_stats |-> <<>>,
             climate_zones |-> {}]
      [] j = "extreme" ->
            [is_partial |-> TRUE, composite_key |-> k,
             event_counts |-> <<>>, severity_counts |-> <<>>, extreme_values |-> <<>>,
             normal_days |-> 0, total_days |-> 0]

\* values with x put in after the first n of them
InsertAt(values, n, x) ==
    SubSeq(values, 1, n) \o <<x>> \o SubSeq(values, n + 1, Len(values))

\* C16: for each job, each key about to be reduced, each delivery order of its
\* values and each position in it, the reducer yields the same lines with an
\* identity accumulator added at that position as without it.
C16_IdentityMerge ==
    (job \in Jobs /\ phase = "reduce") =>
        \A k \in Keys(pending) :
        \A batch \in Orderings(OfKey(pending, k)) :
        \A n \in 0..Len(batch) :
            Reducer(job, k, InsertAt(Values(batch), n, Identity(job, k)))
                = Reducer(job, k, Values(batch))

\* a key about to be reduced has a partial of two records and a raw value, and
\* the reducer handed them with an identity accumulator between yields one line
\* that accounts for three records
C16_Witness ==
    /\ job = "temperature" /\ phase = "reduce"
    /\ \E k \in Keys(pending) :
       \E batch \in Orderings(OfKey(pending, k)) :
          /\ Len(batch) = 2
          /\ batch[1][2].is_partial /\ ~batch[2][2].is_partial
          /\ LET lines == Reducer(job, k, InsertAt(Values(batch), 1, Identity(job, k)))
             IN  Len(lines) = 1 /\ lines[1][2].record_count = 3

-----------------------------------------------------------------------------
(* C17 *)

\* the position of event type t in the event-count map d
PositionOf(d, t) == CHOOSE i \in 1..Len(d) : d[i][1] = t

\* entry i of the event-count map d ranks before entry j: it is more frequent, or
\* as frequent and encountered earlier
RanksBefore(d, i, j) == d[i][2] > d[j][2] \/ (d[i][2] = d[j][2] /\ i < j)

\* C17: the primary threats of an emitted line are at most 3 entries, each of
\* count > 0; entry i is the event type that exactly i-1 event types rank before
\* (higher frequency first, the earlier encountered first among equals), with
\* its frequency.
C17_PrimaryThreatsTop3 ==
    (job = "assess" /\ phase = "done") =>
        \A l \in OutputLines :
            LET d == l[2].extreme_events_summary
                pt == l[2].primary_threats
            IN  /\ Len(pt) = (IF Len(d) < 3 THEN Len(d) ELSE 3)
                /\ \A i \in 1..Len(pt) :
                      /\ pt[i].frequency > 0
                      /\ DictHas(d, pt[i].threat_type)
                      /\ pt[i].frequency = DictGet(d, pt[i].threat_type, 0)
                      /\ Cardinality({j \in 1..Len(d) :
                             RanksBefore(d, j, PositionOf(d, pt[i].threat_type))}) = i - 1

\* a location with five event types, of which the fourth encountered is the most
\* frequent: it is reported first, then the first two of the equally frequent
C17_Witness ==
    /\ job = "assess" /\ phase = "done"
    /\ \E l \in OutputLines :
          /\ Len(l[2].extreme_events_summary) = 5
          /\ l[2].extreme_events_summary[4] = <<ExtremeWind, 2>>
          /\ l[2].primary_threats =
                <<[threat_type |-> ExtremeWind, frequency |-> 2],
                  [threat_type |-> ExtremeHeat, frequency |-> 1],
                  [threat_type |-> ExtremeCold, frequency |-> 1]>>

-----------------------------------------------------------------------------
(* C18 *)

\* the level the thresholds assign to a score (in hundredths): very high above 7,
\* high above 5 up to 7, medium above 3 up to 5, low above 1 up to 3, else very low
LevelOfScore(score) ==
    CASE score > 700 -> "muy_alto"
      [] 500 < score /\ score <= 700 -> "alto"
      [] 300 < score /\ score <= 500 -> "medio"
      [] 100 < score /\ score <= 300 -> "bajo"
      [] score <= 100 -> "muy_bajo"

\* the line of a location whose two events are one extreme_heat/high and one
\* drought_day/low
HeatAndDrought(l) ==
    /\ l[2].total_days_analyzed = 2
    /\ DictItems(l[2].severity_breakdown)
          = {<<ExtremeHeat \o <<"high">>, 1>>, <<DroughtDay \o <<"low">>, 1>>}

\* C18: the risk_level of every emitted line is the level the strict thresholds
\* assign to its overall_risk_score, and the line of a location with one
\* extreme_heat/high and one drought_day/low event (total_days 2) has the level
\* the thresholds assign to the score of the formula, 3.05: medium.
C18_RiskLevelThresholds ==
    (job = "assess" /\ phase = "done") =>
        \A l \in OutputLines :
            /\ l[2].risk_level = LevelOfScore(l[2].overall_risk_score)
            /\ HeatAndDrought(l) =>
                  /\ RoundDiv(10 * ClaimedRiskPoints(l[2].severity_breakdown), 2) = 305
                  /\ l[2].risk_level = LevelOfScore(305)
                  /\ l[2].risk_level = "medio"

\* the location with one extreme_heat/high and one drought_day/low event was
\* assessed
C18_Witness ==
    /\ job = "assess" /\ phase = "done"
    /\ \E l \in OutputLines : HeatAndDrought(l) /\ l[2].overall_risk_score = 305

-----------------------------------------------------------------------------
(* C19 *)

\* the group a line of the temperature job reports
TempLineKey(l) == <<l[2].climate_zone, l[2].season, l[2].month>>

\* the accepted input lines of group g
TempGroup(g) ==
    SelectSeq(Accepted, LAMBDA r : GroupKey("temperature", options, r) = g)

\* the statistics of a line: every field but those of the key
TempStatistics(stats) ==
    [f \in DOMAIN stats \ {"analysis_type", "season", "month"} |-> stats[f]]

\* the statistics the job computes under the default setting for exactly these
\* input lines, all of one zone
DefaultStatistics(recs) ==
    LET full == [analysis_type |-> "full"]
        pairs == MapAll("temperature", full, recs)
    IN  TempStatistics(Reducer("temperature", pairs[1][1], Values(pairs))[1][2])

\* C19: when a temperature run ends (no value having passed through more than one
\* combiner call), under each analysis type every accepted line belongs to exactly
\* one emitted group, keyed by its zone and by its season (seasonal), its month
\* (monthly) or neither (default); each emitted line carries the statistics the
\* default setting computes for exactly the lines of its group; and per zone the
\* record_count of the lines sums to the number of accepted lines of the zone.
C19_GranularityGroupsOnly ==
    DoneOnce("temperature") =>
        /\ \A i \in 1..Len(Accepted) :
              Cardinality({n \in 1..Len(output) :
                  TempLineKey(output[n])
                      = GroupKey("temperature", options, Accepted[i])}) = 1
        /\ \A l \in OutputLines :
              /\ l[2].analysis_type = options.analysis_type
              /\ TempGroup(TempLineKey(l)) # <<>>
              /\ TempStatistics(l[2]) = DefaultStatistics(TempGroup(TempLineKey(l)))
        /\ \A z \in {Accepted[i].climate_zone : i \in 1..Len(Accepted)} :
              SumRecordCount(SelectSeq(output, LAMBDA l : l[2].climate_zone = z))
                  = Len(SelectSeq(Accepted, LAMBDA r : r.climate_zone = z))

\* a seasonal run ended in which the three accepted lines of zone tropical form a
\* winter group of one line and a summer group of two
C19_Witness ==
    /\ DoneOnce("temperature") /\ options.analysis_type = "seasonal"
    /\ \E a, b \in OutputLines :
          /\ TempLineKey(a) = <<"tropical", "winter", 0>> /\ a[2].record_count = 1
          /\ TempLineKey(b) = <<"tropical", "summer", 0>> /\ b[2].record_count = 2

-----------------------------------------------------------------------------
(* C20 *)

\* the input is the three lines of zone tropical_mountain with daily means 20.0,
\* 22.0 and 24.0, once each
ThreeMountainDays ==
    /\ BagCardinality(input) = 3
    /\ \A r \in BagToSet(input) : r.climate_zone = "tropical_mountain"
    /\ {r.temperature_2m_mean : r \in BagToSet(input)} = {Num(200), Num(220), Num(240)}

\* C20 (as claimed): a temperature run on these three lines ends, under every
\* combiner/reducer schedule, with one emitted line, of mean_temperature 22.0,
\* temperature_variability 2.0 and comfortable_days 3.
C20_KnownTemperatureValues ==
    (job = "temperature" /\ phase = "done" /\ ThreeMountainDays) =>
        /\ Len(output) = 1
        /\ output[1][2].mean_temperature = 2200
        /\ output[1][2].temperature_variability = 200
        /\ output[1][2].comfortable_days = 3

-----------------------------------------------------------------------------
(* C21 *)

\* the input is the three lines of country Colombia with daily precipitation
\* 0.0, 5.0 and 0.0 (15, 16 and 17 January 2024), once each
ThreeColombiaDays ==
    /\ BagCardinality(input) = 3
    /\ \A r \in BagToSet(input) : r.country = "Colombia" /\ r.date[2] = 1
    /\ {r.date[3] : r \in BagToSet(input)} = {15, 16, 17}

\* the claimed values on the single emitted line
KnownPrecipitationLine ==
    /\ Len(output) = 1
    /\ output[1][2].total_precipitation_mm = 500
    /\ output[1][2].average_daily_precipitation = 167
    /\ output[1][2].rainy_days_percentage = 3333

\* C21 (as claimed): a precipitation run with threshold 1.0 on these three lines
\* ends, under every combiner/reducer schedule, with total_precipitation_mm 5.0,
\* average_daily_precipitation 1.67 and rainy_days_percentage 33.33.
C21_KnownPrecipitationValues ==
    (job = "precipitation" /\ phase = "done" /\ ThreeColombiaDays) =>
        KnownPrecipitationLine

\* the same, restricted to schedules in which no value passes through more than
\* one combiner call
C21_OnePass ==
    (DoneOnce("precipitation") /\ ThreeColombiaDays) => KnownPrecipitationLine

-----------------------------------------------------------------------------
(* C22 *)

\* the per-day mean temperature of an accepted line, in tenths of a degree
DayMean(r) ==
    IF r.temperature_2m_mean.tag = "num" THEN r.temperature_2m_mean.v
    ELSE (r.temperature_2m_max.v + r.temperature_2m_min.v) \div 2

\* the emitted lines of temperature group g
TempLinesOf(g) == {l \in OutputLines : TempLineKey(l) = g}

\* C22: when a temperature run ends (no value having passed through more than one
\* combiner call), every group with exactly one accepted observation has exactly
\* one emitted line, a statistics line under the group's zone and not an error
\* line, with record_count 1, temperature_variability 0 and q1, median and q3
\* all equal to the single per-day mean.
C22_SingleObservation ==
    DoneOnce("temperature") =>
        \A i \in 1..Len(Accepted) :
            LET g == GroupKey("temperature", options, Accepted[i])
            IN  Len(TempGroup(g)) = 1 =>
                  /\ Cardinality(TempLinesOf(g)) = 1
                  /\ \A l \in TempLinesOf(g) :
                        /\ l[1] = Accepted[i].climate_zone
                        /\ l[2].record_count = 1
                        /\ l[2].temperature_variability = 0
                        /\ l[2].q1_temp = 10 * DayMean(Accepted[i])
                        /\ l[2].median_temp = 10 * DayMean(Accepted[i])
                        /\ l[2].q3_temp = 10 * DayMean(Accepted[i])

\* a finished seasonal run in which the single winter day of zone tropical went
\* through the combiner and was emitted next to a group of two days
C22_Witness ==
    /\ DoneOnce("temperature") /\ rounds = 1 /\ options.analysis_type = "seasonal"
    /\ \E a, b \in OutputLines :
          /\ TempLineKey(a) = <<"tropical", "winter", 0>>
          /\ a[2].record_count = 1 /\ a[2].temperature_variability = 0
          /\ a[2].median_temp = 2000
          /\ b[2].record_count = 2

-----------------------------------------------------------------------------
(* C23 *)

\* the daily precipitation of the country's input lines, in tenths of a mm
RainDays == [i \in 1..Len(input) |-> input[i].precipitation_sum.v]

\* the days at or above the threshold
RainyDays == {i \in 1..Len(input) : RainDays[i] >= options.min_precipitation}

\* the humidity tier of a mean daily precipitation of sum / days tenths of a mm
ClaimedHumidity(sum, days) ==
    CASE sum > 50 * days -> "muy_humedo"
      [] 20 * days < sum /\ sum <= 50 * days -> "humedo"
      [] 5 * days < sum /\ sum <= 20 * days -> "moderado"
      [] sum <= 5 * days -> "arido"

\* C23: in a precipitation run on the days of one country, every value the
\* mapper yields is marked rainy exactly when its precipitation is at or above
\* min_precipitation, and the emitted line counts exactly those days as rainy:
\* total_rainy_days + total_dry_days = total_days_analyzed = the number of days,
\* rainy_days_percentage = rainy / total x 100 (two decimals), and
\* humidity_classification is very humid iff the mean daily precipitation is
\* > 5, humid iff in (2, 5], moderate iff in (0.5, 2], arid otherwise.
C23_PrecipitationClassification ==
    job = "rain" =>
        /\ \A i \in 1..Len(pending) :
              ~pending[i][2].is_partial =>
                 (pending[i][2].is_rainy
                    <=> pending[i][2].precipitation >= options.min_precipitation)
        /\ phase = "done" =>
              /\ Len(output) = 1
              /\ output[1][2].total_days_analyzed = Len(input)
              /\ output[1][2].total_rainy_days = Cardinality(RainyDays)
              /\ output[1][2].total_rainy_days + output[1][2].total_dry_days
                    = output[1][2].total_days_analyzed
              /\ output[1][2].rainy_days_percentage
                    = RoundDiv(10000 * Cardinality(RainyDays), Len(input))
              /\ output[1][2].humidity_classification
                    = ClaimedHumidity(SeqSum(RainDays), Len(input))

\* a finished run on a day of exactly 1.0 mm (rainy), one of 0.9 mm (dry) and one
\* of 5.0 mm, part of them combined: two of three days rainy, classified humid
C23_Witness ==
    /\ job = "rain" /\ phase = "done" /\ rounds = 1
    /\ options.min_precipitation = MinPrecipitationDefault
    /\ RainDays = <<10, 9, 50>>
    /\ output[1][2].total_rainy_days = 2
    /\ output[1][2].rainy_days_percentage = 6667
    /\ output[1][2].humidity_classification = "humedo"

\* a finished run on a single day whose mean lies exactly on a tier boundary
C23_Boundary ==
    /\ job = "rain" /\ phase = "done"
    /\ RainDays \in {<<5>>, <<20>>, <<50>>}

-----------------------------------------------------------------------------
(* C24 *)

\* the per-day mean temperatures of the zone's input lines, in tenths of a degree
ComfortDays == [i \in 1..Len(input) |-> input[i].temperature_2m_mean.v]

\* the days of each class
ComfortableSet == {i \in 1..Len(input) : 180 <= ComfortDays[i] /\ ComfortDays[i] <= 260}
HotSet == {i \in 1..Len(input) : ComfortDays[i] > 300}
ColdSet == {i \in 1..Len(input) : ComfortDays[i] < 100}

\* C24: the line a temperature run emits for a group counts as comfortable_days
\* exactly the days with 18 <= mean <= 26, as hot_days exactly those with
\* mean > 30 and as cold_days exactly those with mean < 10; no day is in two
\* classes, the three counts sum to at most record_count, and comfort_percentage
\* is comfortable_days / number of days x 100 (two decimals).
C24_ComfortCounts ==
    (job = "comfort" /\ phase = "done") =>
        /\ Len(output) = 1
        /\ output[1][2].comfortable_days = Cardinality(ComfortableSet)
        /\ output[1][2].hot_days = Cardinality(HotSet)
        /\ output[1][2].cold_days = Cardinality(ColdSet)
        /\ ComfortableSet \cap HotSet = {} /\ ComfortableSet \cap ColdSet = {}
        /\ HotSet \cap ColdSet = {}
        /\ output[1][2].comfortable_days + output[1][2].hot_days
              + output[1][2].cold_days <= output[1][2].record_count
        /\ output[1][2].record_count = Len(input)
        /\ output[1][2].comfort_percentage
              = RoundDiv(10000 * output[1][2].comfortable_days, Len(input))

\* a finished run on days of exactly 18.0, 26.0 and 30.0 degrees, part of them
\* combined: two comfortable days, no hot day
C24_Witness ==
    /\ job = "comfort" /\ phase = "done" /\ rounds = 1
    /\ ComfortDays = <<180, 260, 300>>
    /\ output[1][2].comfortable_days = 2
    /\ output[1][2].hot_days = 0
    /\ output[1][2].comfort_percentage = 6667

-----------------------------------------------------------------------------
(* C25 *)

\* the combiner's loop raises on one of these values: each job's combiner reads
\* raw-value fields, which a partial accumulator lacks
CombinerFails(values) == \E i \in 1..Len(values) : values[i].is_partial

\* C25 (as claimed): whenever a combiner call fails with an exception on one of
\* the values it is handed, it yields all the values it was handed, unchanged
\* and under the same key.
C25_FallbackLosesNothing ==
    (job \in Jobs /\ phase = "map") =>
        \A k \in Keys(pending) :
        \A batch \in Selections(OfKey(pending, k)) :
            CombinerFails(Values(batch)) =>
                Combiner(job, k, Values(batch)) = Values(batch)

-----------------------------------------------------------------------------
(* C26 *)

\* C26 (as claimed): when the reducer of a simplified job is handed the mapper's
\* values as they are, no combiner having run, it completes, and emits what it
\* emits when the combiner ran once over the same values.
C26_SimplifiedZeroRounds ==
    (job \in SimpleJobs /\ phase \in {"done", "failed"} /\ rounds = 0) =>
        /\ phase = "done"
        /\ output = SimpleReducer(job, pending[1][1],
                        SimpleCombiner(job, Values(pending)).yields).yields

-----------------------------------------------------------------------------
(* C27 *)

\* C27 (as claimed): when an extreme-weather run ends (no value having passed
\* through more than one combiner call), for every accepted record with
\* location_key L and climate_zone Z some emitted line has output key L and
\* carries location_key = L and climate_zone = Z.
C27_KeyRoundTrip ==
    DoneOnce("extreme") =>
        \A i \in 1..Len(Accepted) :
            \E l \in OutputLines :
                /\ l[1] = Accepted[i].location_key
                /\ l[2].location_key = Accepted[i].location_key
                /\ l[2].climate_zone = Accepted[i].climate_zone

-----------------------------------------------------------------------------
(* C28 *)

RECURSIVE BucketSum(_, _, _)
\* the sum of one field over the entries keys of a sub-aggregate
BucketSum(buckets, field, keys) ==
    IF keys = {} THEN 0
    ELSE LET k == CHOOSE x \in keys : TRUE
         IN  buckets[k][field] + BucketSum(buckets, field, keys \ {k})

\* the entries of a sub-aggregate account for all days and all precipitation of
\* the line (the bucket totals are in tenths, the line's total in hundredths)
Partitions(line, buckets) ==
    /\ BucketSum(buckets, "total_days", DOMAIN buckets) = line.total_days_analyzed
    /\ 10 * BucketSum(buckets, "total_precipitation", DOMAIN buckets)
          = line.total_precipitation_mm

\* the accepted input lines of a country
AcceptedOfCountry(c) == SelectSeq(Accepted, LAMBDA r : r.country = c)

\* each entry of the sub-aggregate counts exactly the lines that fall in it,
\* where of[i] is the bucket of the i-th accepted line of the country
CountsEach(buckets, of) ==
    /\ \A i \in 1..Len(of) : of[i] \in DOMAIN buckets
    /\ \A b \in DOMAIN buckets :
          buckets[b].total_days = Cardinality({i \in 1..Len(of) : of[i] = b})

\* C28: in the precipitation job every value the mapper yields carries exactly
\* one season (12,1,2 winter; 3,4,5 spring; 6,7,8 summer; 9,10,11 autumn), month
\* and year, those of its line; on every emitted line, under every
\* combiner/reducer schedule, the total_days of the seasonal entries sum to
\* total_days_analyzed and their total_precipitation to the country total, and so
\* do the monthly and the yearly entries; and when no value passed through more
\* than one combiner call each entry counts exactly the accepted lines of the
\* country that fall in it.
C28_SubAggregatesPartition ==
    job = "precipitation" =>
        /\ \A p \in BagToSet(pending) :
              ~p[2].is_partial =>
                 /\ p[2].season = SeasonOf(p[2].date[2])
                 /\ p[2].month = p[2].date[2]
                 /\ p[2].year = p[2].date[1]
        /\ phase = "done" =>
              \A l \in OutputLines :
                 /\ Partitions(l[2], l[2].seasonal_analysis)
                 /\ Partitions(l[2], l[2].monthly_analysis)
                 /\ Partitions(l[2], l[2].yearly_analysis)
        /\ DoneOnce("precipitation") =>
              \A l \in OutputLines :
                 LET recs == AcceptedOfCountry(l[1])
                 IN  /\ l[2].total_days_analyzed = Len(recs)
                     /\ CountsEach(l[2].seasonal_analysis,
                                   [i \in 1..Len(recs) |-> SeasonOf(recs[i].date[2])])
                     /\ CountsEach(l[2].monthly_analysis,
                                   [i \in 1..Len(recs) |-> recs[i].date[2]])
                     /\ CountsEach(l[2].yearly_analysis,
                                   [i \in 1..Len(recs) |-> recs[i].date[1]])

\* a finished run in which Colombia's January 2024 days were combined and its
\* July 2023 day was not: two seasons, two months and two years, three days
C28_Witness ==
    /\ DoneOnce("precipitation") /\ rounds = 1
    /\ \E l \in OutputLines :
          /\ l[1] = "Colombia"
          /\ l[2].total_days_analyzed = 3
          /\ DOMAIN l[2].seasonal_analysis = {"winter", "summer"}
          /\ l[2].seasonal_analysis["winter"].total_days = 2
          /\ DOMAIN l[2].yearly_analysis = {2023, 2024}
          /\ l[2].total_precipitation_mm = 1700

-----------------------------------------------------------------------------
(* C29 *)

RECURSIVE CountTotal(_)
\* the sum of the counts of a dict of counts
CountTotal(counts) ==
    IF counts = <<>> THEN 0 ELSE Head(counts)[2] + CountTotal(Tail(counts))

\* the per-(event type, severity) counts that belong to event type t: the
\* severity key is the event type followed by the severity
SeverityCountsOf(severity_counts, t) ==
    SelectSeq(severity_counts, LAMBDA e : SubSeq(e[1], 1, Len(e[1]) - 1) = t)

\* normal days and events make up the days, and each event type's severities
\* make up its events
DaysBalance(event_counts, severity_counts, normal_days, total_days) ==
    /\ normal_days + CountTotal(event_counts) = total_days
    /\ \A i \in 1..Len(event_counts) :
          CountTotal(SeverityCountsOf(severity_counts, event_counts[i][1]))
              = event_counts[i][2]
    /\ \A i \in 1..Len(severity_counts) :
          \E j \in 1..Len(event_counts) :
              event_counts[j][1] = SubSeq(severity_counts[i][1], 1,
                                          Len(severity_counts[i][1]) - 1)

\* C29: in the extreme-weather job, in every partial accumulator the combiner
\* yields and on every emitted line, normal_days plus the sum of the event-type
\* counts (extreme_days on the line) equals total_days, the severity counts of
\* each event type sum to that type's count, and extreme_percentage is
\* extreme_days / total_days x 100, between 0 and 100.
C29_DayAccounting ==
    job = "extreme" =>
        /\ \A p \in BagToSet(pending) :
              p[2].is_partial =>
                 DaysBalance(p[2].event_counts, p[2].severity_counts,
                             p[2].normal_days, p[2].total_days)
        /\ \A l \in OutputLines :
              /\ DaysBalance(l[2].extreme_events_summary, l[2].severity_breakdown,
                             l[2].normal_days, l[2].total_days_analyzed)
              /\ l[2].extreme_days = CountTotal(l[2].extreme_events_summary)
              /\ l[2].extreme_percentage
                    = RoundDiv(10000 * l[2].extreme_days, l[2].total_days_analyzed)
              /\ 0 <= l[2].extreme_percentage /\ l[2].extreme_percentage <= 10000

\* a finished run whose line merges a partial with a raw event: two heat events
\* of different severity, a drought day, and a share of extreme days of 100
C29_Witness ==
    /\ job = "extreme" /\ phase = "done" /\ rounds = 1
    /\ \E l \in OutputLines :
          /\ l[2].total_days_analyzed = 3
          /\ <<ExtremeHeat, 2>> \in DictItems(l[2].extreme_events_summary)
          /\ <<DroughtDay, 1>> \in DictItems(l[2].extreme_events_summary)
          /\ Len(l[2].severity_breakdown) = 3
          /\ l[2].extreme_percentage = 10000

-----------------------------------------------------------------------------
(* C30 *)

\* the attempts made so far that failed
FailedAttempts == {i \in 1..Len(input) : input[i].kind # "ok"}

\* what holds at every point of a call of _make_request_with_retry
RetryInvariant ==
    job = "retry" =>
        \* at most max_retries + 1 attempts, 4 by default
        /\ Len(input) <= options.max_retries + 1
        /\ Len(input) <= MaxRetriesDefault + 1
        \* no attempt follows a successful one, whose data is returned at once
        /\ \A i \in 1..Len(input) :
              input[i].kind = "ok" =>
                 i = Len(input) /\ phase = "returned" /\ output = <<input[i].data>>
        \* None is returned exactly when every attempt failed, all having been made
        /\ phase = "returned" =>
              /\ Len(output) = 1
              /\ (output = <<None>>) <=> (FailedAttempts = 1..Len(input))
              /\ output = <<None>> => Len(input) = options.max_retries + 1
        /\ phase # "returned" => output = <<>>
        \* the k-th wait precedes attempt k + 1 and lasts retry_delay x k seconds;
        \* there is one after each failed attempt but the last possible one
        /\ \A k \in 1..Len(pending) : pending[k] = options.retry_delay * k
        /\ Len(pending) = IF Cardinality(FailedAttempts) <= options.max_retries
                          THEN Cardinality(FailedAttempts) ELSE options.max_retries

C30_Exhausted ==
    /\ job = "retry" /\ phase = "returned"
    /\ Len(input) = 4 /\ pending = <<2, 4, 6>> /\ output = <<None>>

====
